---- MODULE Spec2Model ----
(***************************************************************************)
(* A model of the Minispec compiler front end (msc): diagnostic reporting  *)
(* (errors.cpp), the IntegerContext scope stack, the emitter               *)
(* (TranslatedCode), ParametricUse, Integer expression folding and the     *)
(* parametric work loop (translate.cpp), and import resolution             *)
(* (parse.cpp).  Each component has its own specification over the         *)
(* shared variables; the components a specification does not exercise stay *)
(* in their initial state.                                                 *)
(***************************************************************************)
EXTENDS Integers, Sequences, FiniteSets, TLC

VARIABLES
    \* errors.cpp:29-33, the reporting state
    errMsgs, warnMsgs, errCtxs, warnCtxs, totalErrs, totalWarns, reportAllMsgs,
    \* what reached std::cerr, the phase of the process, and the last call made
    stderrLog, errPhase, lastReport,
    \* whether reportMsg was called with isError since start-up
    errReported,
    \* translate.cpp:256, the scope stack of the IntegerContext
    levels,
    \* per scope: the stack as it was when the scope was entered, and the ancestor
    \* bindings that a set issued inside the scope has reached
    icEntry, icTargets,
    \* the last set and the last exitLevel, and the number of calls made
    lastSet, lastExit, icOps,
    \* two parametric uses as written (translate.cpp:580, 1463), the set of local
    \* type names, the ParametricUses built from them, and what == and str() gave
    puIn, puA, puB, puOut,
    \* the values the Elaborator has deposited on the operands not yet consumed
    \* (elabValues of sibling expression nodes), each with the value the
    \* expression has under two's-complement arithmetic, and whether the
    \* process has died in a fold, and the node the Elaborator left last
    arStack, arFault, arLast,
    \* the TranslatedCode objects, the Elaborator's elabValues for the nodes
    \* they emit, the emit calls made, and the last call
    tcs, tcValues, tcOps, tcLast,
    \* the import items of the source files, the position of parseFileAndImports,
    \* parsedFilesMap, the imports vector of each ParsedFile, the frames of the
    \* recursive calls, TopoSort's path, sortedTrees, and the fatal error raised
    impSource, impPhase, parsedFiles, imports, impFrames, path, sortedTrees, impError,
    \* translateFiles: the top-level code of the package, the point reached, the
    \* ParametricsMap, the statements left to walk, the for loop being unrolled,
    \* the uses the walked code prints, tc's parametricUsesEmitted, the uses of
    \* the round and the next one to visit, the definition being instantiated
    \* with its signature, elabDepth, numElabSteps, the Elaborator's
    \* parametricsEmitted, the signatures of the specializations emitted, every
    \* use printed so far, the errors reported and the fatal diagnostic
    elabTop, elabStatus, parametrics, elabItems, elabFor, elabOut, tcUses, paramUses,
    useIdx, elabSig, elabDepth, numElabSteps, parametricsEmitted, emittedSpecs,
    printedUses, elabErrs, elabFatal,
    \* the walk of the body of a definition: the kind of definition, its
    \* statements, those left to walk, what emit prints for each statement
    \* walked, what the handlers did, the errors reported, numElabSteps, and
    \* the point reached
    stScope, stBody, stTodo, stText, stLog, stErrs, stSteps, stPhase,
    \* combine.cpp: main's parse trees, the RenameTable, the file and packageStmt
    \* being walked, the listener's lv and names, and what reached std::cout
    cbArgv, cbTable, cbFile, cbStmt, cbLv, cbNames, cbOut, cbPhase,
    \* msc.cpp:26, the events of the bsc output, the top-level name, whether the
    \* SourceMap knows the translated location, the next event, and the calls
    \* of reportMsg
    mscEvents, mscTopLevel, mscMapped, mscNext, mscReports,
    \* translate.cpp:456-476, the values setValue has stored on nodes, each
    \* with the handler that stored it, whether a parent or translateFiles has
    \* consumed it, and the parametric uses below it that are printed and that
    \* lie in a non-taken branch; translate.cpp:482, submoduleNames;
    \* translate.cpp:1593, the TranslatedCode of translateFiles; the last
    \* handler call and the number of calls
    elabValues, submoduleNames, outTc, valLast, valOps

errVars == <<errMsgs, warnMsgs, errCtxs, warnCtxs, totalErrs, totalWarns,
             reportAllMsgs, stderrLog, errPhase, lastReport, errReported>>

icVars == <<levels, icEntry, icTargets, lastSet, lastExit, icOps>>

puVars == <<puIn, puA, puB, puOut>>

arVars == <<arStack, arFault, arLast>>

tcVars == <<tcs, tcValues, tcOps, tcLast>>

impVars == <<impSource, impPhase, parsedFiles, imports, impFrames, path, sortedTrees, impError>>

elabVars == <<elabTop, elabStatus, parametrics, elabItems, elabFor, elabOut, tcUses,
              paramUses, useIdx, elabSig, elabDepth, numElabSteps, parametricsEmitted,
              emittedSpecs, printedUses, elabErrs, elabFatal>>

stVars == <<stScope, stBody, stTodo, stText, stLog, stErrs, stSteps, stPhase>>

cbVars == <<cbArgv, cbTable, cbFile, cbStmt, cbLv, cbNames, cbOut, cbPhase>>

mscVars == <<mscEvents, mscTopLevel, mscMapped, mscNext, mscReports>>

valVars == <<elabValues, submoduleNames, outTc, valLast, valOps>>

vars == <<errVars, icVars, puVars, arVars, tcVars, impVars, elabVars, stVars, cbVars, mscVars, valVars>>

(***************************************************************************)
(* Diagnostic reporting (errors.cpp)                                       *)
(***************************************************************************)

\* The message texts and the AST nodes a diagnostic may carry; NullCtx is the
\* nullptr default of reportMsg's ctx parameter.
Msgs == {"m1", "m2"}
NullCtx == "nullptr"
Ctxs == {NullCtx, "n1", "n2"}

\* The number of counted reportMsg calls explored (caps totalErrs + totalWarns).
MaxReports == 4

NoReport == [op |-> "none"]

ErrInit ==
    /\ errMsgs = {}
    /\ warnMsgs = {}
    /\ errCtxs = {}
    /\ warnCtxs = {}
    /\ totalErrs = 0
    /\ totalWarns = 0
    /\ reportAllMsgs = FALSE
    /\ stderrLog = <<>>
    /\ errPhase = "start"
    /\ lastReport = NoReport
    /\ errReported = FALSE

\* initReporting(reportAllErrors), called once by main before anything is reported
initReporting(reportAllErrors) ==
    /\ errPhase = "start"
    /\ reportAllMsgs' = reportAllErrors
    /\ errPhase' = "reporting"
    /\ lastReport' = [op |-> "initReporting"]
    /\ UNCHANGED <<errMsgs, warnMsgs, errCtxs, warnCtxs, totalErrs, totalWarns, stderrLog,
                   errReported>>

\* The early return of reportMsg: the exact text was already printed
MutIsRepeat(msgs, msg) == FALSE

IsRepeat(msgs, msg) == msg \in msgs

\* The test that decides whether reportMsg prints
MutShouldPrint(all, msgs, ctxs, msg, ctx) == (msg \notin msgs) /\ (ctx \notin ctxs)

ShouldPrint(all, msgs, ctxs, msg, ctx) == all \/ ((msg \notin msgs) /\ (ctx \notin ctxs))

\* reportMsg(isError, msg, locInfo, ctx)
reportMsg(isError, msg, ctx) ==
    LET msgs == IF isError THEN errMsgs ELSE warnMsgs
        ctxs == IF isError THEN errCtxs ELSE warnCtxs
        total == IF isError THEN totalErrs ELSE totalWarns
        repeat == IsRepeat(msgs, msg)
        print == ~repeat /\ ShouldPrint(reportAllMsgs, msgs, ctxs, msg, ctx)
        msgs2 == IF print THEN msgs \cup {msg} ELSE msgs
        ctxs2 == IF print /\ ctx # NullCtx THEN ctxs \cup {ctx} ELSE ctxs
        total2 == IF repeat THEN total ELSE total + 1
    IN  /\ errPhase = "reporting"
        /\ totalErrs + totalWarns < MaxReports
        /\ errMsgs' = (IF isError THEN msgs2 ELSE errMsgs)
        /\ warnMsgs' = (IF isError THEN warnMsgs ELSE msgs2)
        /\ errCtxs' = (IF isError THEN ctxs2 ELSE errCtxs)
        /\ warnCtxs' = (IF isError THEN warnCtxs ELSE ctxs2)
        /\ totalErrs' = (IF isError THEN total2 ELSE totalErrs)
        /\ totalWarns' = (IF isError THEN totalWarns ELSE total2)
        /\ stderrLog' = (IF print THEN Append(stderrLog, [isError |-> isError, msg |-> msg])
                         ELSE stderrLog)
        /\ lastReport' = [op |-> "reportMsg", isError |-> isError, msg |-> msg, ctx |-> ctx,
                          all |-> reportAllMsgs,
                          msgSeen |-> (msg \in msgs), ctxSeen |-> (ctx \in ctxs),
                          printed |-> print, totalBefore |-> total, totalAfter |-> total2]
        /\ errReported' = (errReported \/ isError)
        /\ UNCHANGED <<reportAllMsgs, errPhase>>

\* reportErr / reportWarn
reportErr(msg, ctx) == reportMsg(TRUE, msg, ctx)

reportWarn(msg, ctx) == reportMsg(FALSE, msg, ctx)

\* The "omitted N errors" figure of exitIfErrors (0 when no note is printed)
Omitted == IF totalErrs > Cardinality(errMsgs) THEN totalErrs - Cardinality(errMsgs) ELSE 0

\* The test of exitIfErrors: if (!totalErrs) return; otherwise exit(-1)
MutExits(errs, warns) == errs + warns # 0

Exits(errs, warns) == errs # 0

\* exitIfErrors()
exitIfErrors ==
    /\ errPhase = "reporting"
    /\ lastReport' = [op |-> "exitIfErrors", omitted |-> Omitted,
                      exits |-> Exits(totalErrs, totalWarns)]
    /\ errPhase' = (IF Exits(totalErrs, totalWarns) THEN "exited" ELSE errPhase)
    /\ UNCHANGED <<errMsgs, warnMsgs, errCtxs, warnCtxs, totalErrs, totalWarns,
                   reportAllMsgs, stderrLog, errReported>>

(***************************************************************************)
(* IntegerContext (translate.cpp:230-352)                                  *)
(***************************************************************************)

\* Variable names and Integer values used by the calls explored.
IcNames == {"x"}
IcValues == {1, 2}

\* The deepest scope stack and the number of IntegerContext calls explored.
MaxLevels == 4
MaxIcOps == 7

\* IntegerData.value is left unset by defineVar and by "new IntegerData"; the
\* code reads it only in state VALID.  0 stands for those unset contents.
Unset == 0

EmptyMap == [n \in {} |-> 0]

MapPut(f, k, v) == [n \in (DOMAIN f) \cup {k} |-> IF n = k THEN v ELSE f[n]]

\* struct Level
NewLevel(canMutate, poisons) ==
    [integers |-> EmptyMap, nonIntegers |-> {}, types |-> EmptyMap,
     childrenCanMutate |-> canMutate, poisonsAncestors |-> poisons]

\* enterImmutableLevel / enterMutableLevel / enterPoisoningLevel / exitLevel on a stack
IcEnterImmutable(lv) == Append(lv, NewLevel(FALSE, FALSE))

IcEnterMutable(lv) == Append(lv, NewLevel(TRUE, FALSE))

IcEnterPoisoning(lv) == Append(lv, NewLevel(TRUE, TRUE))

IcExit(lv) == SubSeq(lv, 1, Len(lv) - 1)

\* IntegerContext(): the outermost context is immutable
IcNew == IcEnterImmutable(<<>>)

\* findInteger: the index of the scope holding the binding, 0 for nullptr
RECURSIVE FindIntegerFrom(_, _, _)
FindIntegerFrom(lv, name, i) ==
    IF i = 0 THEN 0
    ELSE IF name \in DOMAIN lv[i].integers THEN i
    ELSE IF name \in lv[i].nonIntegers THEN 0
    ELSE FindIntegerFrom(lv, name, i - 1)

FindInteger(lv, name) == FindIntegerFrom(lv, name, Len(lv))

IcIsInteger(lv, name) == FindInteger(lv, name) # 0

\* get: found, and the IntegerData copied out
IcGet(lv, name) ==
    LET i == FindInteger(lv, name)
    IN  IF i = 0 THEN [found |-> FALSE]
        ELSE [found |-> TRUE, state |-> lv[i].integers[name].state,
              value |-> lv[i].integers[name].value]

\* defineVar: ok, and the stack afterwards
IcDefineVar(lv, name, isInteger) ==
    LET cur == lv[Len(lv)]
    IN  IF name \in cur.nonIntegers \/ name \in DOMAIN cur.integers
        THEN [ok |-> FALSE, levels |-> lv]
        ELSE IF isInteger
        THEN [ok |-> TRUE,
              levels |-> [lv EXCEPT ![Len(lv)].integers =
                             MapPut(@, name, [state |-> "INVALID", value |-> Unset])]]
        ELSE [ok |-> TRUE,
              levels |-> [lv EXCEPT ![Len(lv)].nonIntegers = @ \cup {name}]]

\* The scope at which set gives up on an ancestor that its children cannot mutate
MutSetBlocked(lv, i) == ~lv[i].childrenCanMutate

SetBlocked(lv, i) == i # Len(lv) /\ ~lv[i].childrenCanMutate

RECURSIVE MutSetWalk(_, _, _, _)
MutSetWalk(lv, name, i, pl) ==
    IF i = 0 THEN [found |-> 0, poisoningLevel |-> pl]
    ELSE IF SetBlocked(lv, i) THEN [found |-> 0, poisoningLevel |-> pl]
    ELSE IF name \in DOMAIN lv[i].integers THEN [found |-> i, poisoningLevel |-> pl]
    ELSE IF name \in lv[i].nonIntegers THEN [found |-> 0, poisoningLevel |-> pl]
    ELSE MutSetWalk(lv, name, i - 1, IF lv[i].poisonsAncestors THEN i ELSE pl)

\* The loop of set: the scope whose binding it stops at (0 for none) and the
\* poisoning scope it has captured (0 for none)
RECURSIVE SetWalk(_, _, _, _)
SetWalk(lv, name, i, pl) ==
    IF i = 0 THEN [found |-> 0, poisoningLevel |-> pl]
    ELSE IF SetBlocked(lv, i) THEN [found |-> 0, poisoningLevel |-> pl]
    ELSE IF name \in DOMAIN lv[i].integers THEN [found |-> i, poisoningLevel |-> pl]
    ELSE IF name \in lv[i].nonIntegers THEN [found |-> 0, poisoningLevel |-> pl]
    ELSE SetWalk(lv, name, i - 1, IF lv[i].poisonsAncestors /\ pl = 0 THEN i ELSE pl)

\* What set does to the binding it found when a poisoning scope was crossed
MutPoisonWrite(lv, name, value, found, pl) ==
    [lv EXCEPT ![found].integers[name] = [state |-> "VALID", value |-> value]]

PoisonWrite(lv, name, value, found, pl) ==
    [lv EXCEPT ![found].integers[name].state = "POISONED",
               ![pl].integers = MapPut(@, name, [state |-> "VALID", value |-> value])]

MutIcSet(lv, name, value) ==
    LET w == SetWalk(lv, name, Len(lv), 0)
    IN  IF w.found = 0 THEN [ok |-> FALSE, levels |-> lv, found |-> 0]
        ELSE IF w.poisoningLevel # 0
        THEN [ok |-> TRUE, found |-> w.found,
              levels |-> PoisonWrite(lv, name, value, w.found, w.poisoningLevel)]
        ELSE [ok |-> TRUE, found |-> w.found,
              levels |-> [lv EXCEPT ![Len(lv)].integers =
                             MapPut(@, name, [state |-> "VALID", value |-> value])]]

\* set: ok, the stack afterwards, and the scope of the binding it reached
IcSet(lv, name, value) ==
    LET w == SetWalk(lv, name, Len(lv), 0)
    IN  IF w.found = 0 THEN [ok |-> FALSE, levels |-> lv, found |-> 0]
        ELSE IF w.poisoningLevel # 0
        THEN [ok |-> TRUE, found |-> w.found,
              levels |-> PoisonWrite(lv, name, value, w.found, w.poisoningLevel)]
        ELSE [ok |-> TRUE, found |-> w.found,
              levels |-> [lv EXCEPT ![w.found].integers[name] =
                             [state |-> "VALID", value |-> value]]]

\* setType / getType
IcSetType(lv, name, pu) == [lv EXCEPT ![Len(lv)].types = MapPut(@, name, pu)]

RECURSIVE GetTypeFrom(_, _, _)
GetTypeFrom(lv, name, i) ==
    IF i = 0 THEN [found |-> FALSE]
    ELSE IF name \in DOMAIN lv[i].types THEN [found |-> TRUE, pu |-> lv[i].types[name]]
    ELSE GetTypeFrom(lv, name, i - 1)

IcGetType(lv, name) == GetTypeFrom(lv, name, Len(lv))

NoSet == [op |-> "none"]
NoExit == [op |-> "none"]

IcInit ==
    /\ levels = IcNew
    /\ icEntry = <<IcNew>>
    /\ icTargets = <<{}>>
    /\ lastSet = NoSet
    /\ lastExit = NoExit
    /\ icOps = 0

IcPush(lv2) ==
    /\ Len(levels) < MaxLevels
    /\ icOps < MaxIcOps
    /\ levels' = lv2
    /\ icEntry' = Append(icEntry, levels)
    /\ icTargets' = Append(icTargets, {})
    /\ icOps' = icOps + 1
    /\ UNCHANGED <<lastSet, lastExit>>

enterImmutableLevel == IcPush(IcEnterImmutable(levels))

enterMutableLevel == IcPush(IcEnterMutable(levels))

enterPoisoningLevel == IcPush(IcEnterPoisoning(levels))

\* exitLevel (asserts levels.size() > 1)
exitLevel ==
    /\ Len(levels) > 1
    /\ icOps < MaxIcOps
    /\ levels' = IcExit(levels)
    /\ lastExit' = [op |-> "exitLevel",
                    poisoning |-> levels[Len(levels)].poisonsAncestors,
                    pre |-> icEntry[Len(levels)],
                    post |-> IcExit(levels),
                    targets |-> icTargets[Len(levels)]]
    /\ icEntry' = IcExit(icEntry)
    /\ icTargets' = IcExit(icTargets)
    /\ icOps' = icOps + 1
    /\ UNCHANGED lastSet

defineVar(name, isInteger) ==
    /\ icOps < MaxIcOps
    /\ levels' = IcDefineVar(levels, name, isInteger).levels
    /\ icOps' = icOps + 1
    /\ UNCHANGED <<icEntry, icTargets, lastSet, lastExit>>

set(name, value) ==
    LET r == IcSet(levels, name, value)
    IN  /\ icOps < MaxIcOps
        /\ levels' = r.levels
        /\ lastSet' = [op |-> "set", name |-> name, value |-> value, ok |-> r.ok,
                       found |-> r.found, before |-> levels]
        /\ icTargets' = [k \in 1..Len(icTargets) |->
                            IF r.ok /\ k > r.found
                            THEN icTargets[k] \cup {[level |-> r.found, name |-> name]}
                            ELSE icTargets[k]]
        /\ icOps' = icOps + 1
        /\ UNCHANGED <<icEntry, lastExit>>

(***************************************************************************)
(* ParametricUse (translate.cpp:23-64) and its constructors                *)
(***************************************************************************)

\* The names a use may carry: "f" begins with a lowercase letter, "T" does not.
PuNames == {"f", "T"}
LowerCaseNames ==
    {"f", "leaf", "up", "down", "pair", "dup", "box", "loop", "part", "ext", "wide"}
PuInts == {1, 2}

\* The longest parameter list of a use as written.
MaxParams == 2

\* islower(name[0])
IsLower(name) == name \in LowerCaseNames

IntParam(k) == [isInt |-> TRUE, int |-> k]

PuParam(pu) == [isInt |-> FALSE, pu |-> pu]

\* ParametricUse::operator==
MutPuEq(a, b) == a.name = b.name /\ Len(a.params) = Len(b.params)

RECURSIVE PuEq(_, _)
PuEq(a, b) ==
    /\ a.name = b.name
    /\ Len(a.params) = Len(b.params)
    /\ \A i \in 1..Len(a.params) :
          IF a.params[i].isInt
          THEN b.params[i].isInt /\ a.params[i].int = b.params[i].int
          ELSE ~b.params[i].isInt /\ PuEq(a.params[i].pu, b.params[i].pu)

\* ParametricUse::str(alreadyEscaped)
RECURSIVE PuStr(_, _)
RECURSIVE PuParamsStr(_, _, _)
PuParamsStr(pu, i, alreadyEscaped) ==
    IF i > Len(pu.params) THEN ""
    ELSE (IF pu.params[i].isInt THEN ToString(pu.params[i].int)
          ELSE PuStr(pu.params[i].pu, alreadyEscaped))
         \o (IF i = Len(pu.params) THEN ")" ELSE ",")
         \o PuParamsStr(pu, i + 1, alreadyEscaped)

ShouldEscape(pu, alreadyEscaped) == pu.escape /\ ~alreadyEscaped

PuStr(pu, alreadyEscaped) ==
    LET shouldEscape == ShouldEscape(pu, alreadyEscaped)
    IN  (IF shouldEscape THEN "\\" ELSE "")
        \o pu.name
        \o (IF Len(pu.params) > 0 THEN "#(" ELSE "")
        \o PuParamsStr(pu, 1, alreadyEscaped \/ shouldEscape)
        \o (IF shouldEscape THEN " " ELSE "")

\* A use as written: a name and parameters, each an integer literal or a type
\* (itself a use as written).  Types nest one deep here.
InnerSyntax ==
    [name : PuNames, params : {<<>>, <<IntParam(1)>>}]

ParamSyntax == {IntParam(k) : k \in PuInts} \cup {PuParam(t) : t \in InnerSyntax}

ParamLists == UNION {[1..n -> ParamSyntax] : n \in 0..MaxParams}

UseSyntax == [name : PuNames, params : ParamLists]

\* Elaborator::createParametricUsePtr(name, params), on fully elaborated params
RECURSIVE CreateParametricUsePtr(_, _)
CreateParametricUsePtr(syn, localTypeNames) ==
    [name |-> syn.name,
     escape |-> IsLower(syn.name) \/ syn.name \in localTypeNames,
     params |-> [i \in 1..Len(syn.params) |->
                    IF syn.params[i].isInt THEN syn.params[i]
                    ELSE PuParam(CreateParametricUsePtr(syn.params[i].pu, localTypeNames))]]

\* createTopLevelParametricUsePtr(name, params, errHdr), on literal params
RECURSIVE CreateTopLevelParametricUsePtr(_)
CreateTopLevelParametricUsePtr(syn) ==
    [name |-> syn.name,
     escape |-> FALSE,
     params |-> [i \in 1..Len(syn.params) |->
                    IF syn.params[i].isInt THEN syn.params[i]
                    ELSE PuParam(CreateTopLevelParametricUsePtr(syn.params[i].pu))]]

NoPu == [name |-> "", escape |-> FALSE, params |-> <<>>]
NoPuOut == [op |-> "none"]

PuInitDefault ==
    /\ puIn = [local |-> {}, a |-> NoPu, b |-> NoPu]
    /\ puA = NoPu
    /\ puB = NoPu
    /\ puOut = NoPuOut

\* two uses as written in a program whose local types are "local"
PuInit ==
    /\ puIn \in [local : {{}, {"T"}}, a : UseSyntax, b : UseSyntax]
    /\ puA = NoPu
    /\ puB = NoPu
    /\ puOut = NoPuOut

\* both uses are met by the Elaborator (exitVarExpr, exitType)
BuildElaborated ==
    /\ puA = NoPu
    /\ puA' = CreateParametricUsePtr(puIn.a, puIn.local)
    /\ puB' = CreateParametricUsePtr(puIn.b, puIn.local)
    /\ UNCHANGED <<puIn, puOut>>

\* the second use is the topLevel argument of the command line (validateTopLevel)
BuildTopLevel ==
    /\ puA = NoPu
    /\ puA' = CreateParametricUsePtr(puIn.a, puIn.local)
    /\ puB' = CreateTopLevelParametricUsePtr(puIn.b)
    /\ UNCHANGED <<puIn, puOut>>

\* a == b, a.str(), b.str(), and the forms printed with alreadyEscaped = true
CompareAndPrint ==
    /\ puA # NoPu
    /\ puOut = NoPuOut
    /\ puOut' = [op |-> "compared", eq |-> PuEq(puA, puB),
                 strA |-> PuStr(puA, FALSE), strB |-> PuStr(puB, FALSE),
                 rawA |-> PuStr(puA, TRUE), rawB |-> PuStr(puB, TRUE)]
    /\ UNCHANGED <<puIn, puA, puB>>

(***************************************************************************)
(* Integer expression folding (translate.cpp:355-375, 982-1071)            *)
(***************************************************************************)

\* The width of the Integer words.  The code folds in int64_t; the model folds
\* in words of IntBits bits, with every limit (LONG_MAX of std::stol, the
\* shift counts, INT64_MIN / -1) scaled to that width.
IntBits == 5

TwoW == 2 ^ IntBits
MaxInt == 2 ^ (IntBits - 1) - 1
MinInt == -(2 ^ (IntBits - 1))

\* The value of the word whose bits are those of x
Wrap(x) == ((x + 2 ^ (IntBits - 1)) % TwoW) - 2 ^ (IntBits - 1)

Abs(x) == IF x < 0 THEN -x ELSE x

\* Any: int64_t, bool, an error (BasicErrorPtr / SubErrorsPtr, with the
\* messages it holds less the operator they quote) or nullptr
IntV(v) == [t |-> "int", i |-> v, b |-> FALSE, msg |-> {}]

BoolV(x) == [t |-> "bool", i |-> 0, b |-> x, msg |-> {}]

ErrV(m) == [t |-> "error", i |-> 0, b |-> FALSE, msg |-> {m}]

NullV == [t |-> "null", i |-> 0, b |-> FALSE, msg |-> {}]

\* the process dies in the fold (a signal or an uncaught exception)
FaultV == [t |-> "fault", i |-> 0, b |-> FALSE, msg |-> {}]

\* The unsized literals folded: their values as written
LiteralValues == {0, 1, 2, IntBits - 1, IntBits, MaxInt, MaxInt + 1}

\* parseUnsizedLiteral: std::stol throws std::out_of_range beyond LONG_MAX, and
\* nothing catches it
ParseUnsizedLiteral(n) == IF n > MaxInt THEN FaultV ELSE IntV(n)

\* bit i of the word v
Bit(v, i) == ((v % TwoW) \div (2 ^ i)) % 2

RECURSIVE FromBits(_, _)
FromBits(f, i) == IF i = IntBits THEN 0 ELSE f[i] * (2 ^ i) + FromBits(f, i + 1)

WordAnd(l, r) == Wrap(FromBits([i \in 0..(IntBits - 1) |-> Bit(l, i) * Bit(r, i)], 0))

WordOr(l, r) ==
    Wrap(FromBits([i \in 0..(IntBits - 1) |-> IF Bit(l, i) + Bit(r, i) > 0 THEN 1 ELSE 0], 0))

WordXor(l, r) == Wrap(FromBits([i \in 0..(IntBits - 1) |-> (Bit(l, i) + Bit(r, i)) % 2], 0))

WordNot(v) == Wrap(FromBits([i \in 0..(IntBits - 1) |-> 1 - Bit(v, i)], 0))

\* __builtin_parityl
RECURSIVE ParityFrom(_, _)
ParityFrom(v, i) == IF i = IntBits THEN 0 ELSE (Bit(v, i) + ParityFrom(v, i + 1)) % 2

XorReduce(v) == ParityFrom(v, 0)

\* l / r and l % r of C++ for r # 0 (the quotient truncates towards zero)
TruncDiv(l, r) == (IF (l < 0) = (r < 0) THEN 1 ELSE -1) * (Abs(l) \div Abs(r))

TruncMod(l, r) == l - r * TruncDiv(l, r)

\* The guard of the division and of the remainder
DivGuard(r) == r # 0

\* l / r: the quotient INT64_MIN / -1 is not representable, the behaviour is
\* undefined: the idiv of x86-64 raises SIGFPE, the sdiv of AArch64 yields l
DivOutcomes(l, r) ==
    IF ~DivGuard(r) THEN {IntV(0)}
    ELSE IF r = 0 THEN {FaultV}
    ELSE IF l = MinInt /\ r = -1 THEN {FaultV, IntV(MinInt)}
    ELSE {IntV(TruncDiv(l, r))}

ModOutcomes(l, r) ==
    IF ~DivGuard(r) THEN {IntV(0)}
    ELSE IF r = 0 THEN {FaultV}
    ELSE IF l = MinInt /\ r = -1 THEN {FaultV, IntV(0)}
    ELSE {IntV(TruncMod(l, r))}

\* int64_t e = 1; while (r-- > 0) e *= l;
RECURSIVE PowLoop(_, _, _)
PowLoop(l, r, e) == IF r > 0 THEN PowLoop(l, r - 1, Wrap(e * l)) ELSE e

\* l << r and l >> r: a count outside 0..63 is undefined behaviour; the shift
\* instructions of x86-64 and AArch64 use the count modulo the width, a
\* compiler that knows the count may shift every bit out
ShlOutcomes(l, r) ==
    IF 0 <= r /\ r < IntBits THEN {IntV(Wrap(l * (2 ^ r)))}
    ELSE {IntV(Wrap(l * (2 ^ (r % IntBits)))), IntV(0)}

ShrOutcomes(l, r) ==
    IF 0 <= r /\ r < IntBits THEN {IntV(l \div (2 ^ r))}
    ELSE {IntV(l \div (2 ^ (r % IntBits))), IntV(IF l < 0 THEN -1 ELSE 0)}

ArithBinops == {"+", "-", "*", "/", "%", "**", "<<", ">>", "&", "|", "^", "^~", "~^"}
CompareBinops == {"<", "<=", ">", ">=", "==", "!="}
BoolBinops == {"&&", "||"}
Binops == ArithBinops \cup CompareBinops \cup BoolBinops

ArithUnops == {"~", "&", "~&", "|", "~|", "^", "^~", "~^", "+", "-"}
Unops == ArithUnops \cup {"!"}

\* exitBinopExpr on two int64_t operands: the values the fold can deposit.
\* Overflow of + - * is undefined behaviour; the add, sub and imul of the
\* build wrap.
BinopIntOutcomes(op, l, r) ==
    CASE op = "+" -> {IntV(Wrap(l + r))}
      [] op = "-" -> {IntV(Wrap(l - r))}
      [] op = "*" -> {IntV(Wrap(l * r))}
      [] op = "/" -> DivOutcomes(l, r)
      [] op = "%" -> ModOutcomes(l, r)
      [] op = "**" -> {IntV(PowLoop(l, r, 1))}
      [] op = "<<" -> ShlOutcomes(l, r)
      [] op = ">>" -> ShrOutcomes(l, r)
      [] op = "&" -> {IntV(WordAnd(l, r))}
      [] op = "|" -> {IntV(WordOr(l, r))}
      [] op = "^" -> {IntV(WordXor(l, r))}
      [] op \in {"^~", "~^"} -> {IntV(WordXor(WordNot(l), r))}
      [] op = "<" -> {BoolV(l < r)}
      [] op = "<=" -> {BoolV(l <= r)}
      [] op = ">" -> {BoolV(l > r)}
      [] op = ">=" -> {BoolV(l >= r)}
      [] op = "==" -> {BoolV(l = r)}
      [] op = "!=" -> {BoolV(l # r)}
      [] OTHER -> {ErrV("is not a valid operator for Integer values")}

\* SubErrors::create(left, right): the errors of both operands, nullptr if none
SubErrorsCreate(left, right) ==
    IF left.t = "error" \/ right.t = "error"
    THEN [t |-> "error", i |-> 0, b |-> FALSE, msg |-> left.msg \cup right.msg]
    ELSE NullV

\* exitBinopExpr
BinopOutcomes(op, left, right) ==
    IF left.t = "int" /\ right.t = "int" THEN BinopIntOutcomes(op, left.i, right.i)
    ELSE IF left.t = "bool" /\ right.t = "bool"
    THEN CASE op = "&&" -> {BoolV(left.b /\ right.b)}
           [] op = "||" -> {BoolV(left.b \/ right.b)}
           [] OTHER -> {ErrV("is not a valid operator for Bool values")}
    ELSE IF left.t = "int" /\ right.t = "bool"
    THEN {ErrV("operands have values of incompatible types (Integer and Bool)")}
    ELSE {SubErrorsCreate(left, right)}

\* exitUnopExpr; -v of INT64_MIN is undefined behaviour, the neg of the build wraps
UnopOutcomes(op, value) ==
    IF value.t = "int"
    THEN LET v == value.i
         IN  CASE op = "~" -> {IntV(WordNot(v))}
               [] op = "&" -> {IntV(IF v = -1 THEN 1 ELSE 0)}
               [] op = "~&" -> {IntV(IF v = -1 THEN 0 ELSE 1)}
               [] op = "|" -> {IntV(IF v = 0 THEN 0 ELSE 1)}
               [] op = "~|" -> {IntV(IF v = 0 THEN 1 ELSE 0)}
               [] op = "^" -> {IntV(XorReduce(v))}
               [] op \in {"^~", "~^"} -> {IntV(IF XorReduce(v) = 0 THEN 1 ELSE 0)}
               [] op = "+" -> {IntV(v)}
               [] op = "-" -> {IntV(Wrap(-v))}
               [] OTHER -> {ErrV("is not a valid unary operator for an Integer value")}
    ELSE IF value.t = "bool"
    THEN IF op = "!" THEN {BoolV(~value.b)}
         ELSE {ErrV("is not a valid unary operator for a Bool value")}
    ELSE {value}

\* The value of an expression under two's-complement arithmetic, from the
\* values of its operands: the exact integer result, reduced to the word.
\* The quotient truncates towards zero and the remainder takes the sign of
\* the dividend.
RefQuotient(l, r) ==
    CHOOSE q \in (MinInt - 1)..(MaxInt + 1) :
        \E m \in (1 - Abs(r))..(Abs(r) - 1) :
            /\ l = q * r + m
            /\ m = 0 \/ (m < 0) = (l < 0)

RECURSIVE RefPow(_, _)
RefPow(l, r) == IF r = 0 THEN 1 ELSE Wrap(l * RefPow(l, r - 1))

\* l & r on the integers (negative numbers extend their sign without end)
RECURSIVE RefAnd(_, _)
RefAnd(a, b) ==
    IF a = 0 \/ b = 0 THEN 0
    ELSE IF a = -1 THEN b
    ELSE IF b = -1 THEN a
    ELSE 2 * RefAnd(a \div 2, b \div 2) + (a % 2) * (b % 2)

RefOr(a, b) == a + b - RefAnd(a, b)

RefXor(a, b) == a + b - 2 * RefAnd(a, b)

RefNot(a) == -a - 1

\* The operand pairs for which two's-complement arithmetic gives op a value:
\* a negative exponent or shift count has none
RefDefined(op, l, r) == op \in {"**", "<<", ">>"} => r >= 0

RefBinop(op, l, r) ==
    CASE op = "+" -> Wrap(l + r)
      [] op = "-" -> Wrap(l - r)
      [] op = "*" -> Wrap(l * r)
      [] op = "/" -> IF r = 0 THEN 0 ELSE Wrap(RefQuotient(l, r))
      [] op = "%" -> IF r = 0 THEN 0 ELSE Wrap(l - r * RefQuotient(l, r))
      [] op = "**" -> RefPow(l, r)
      [] op = "<<" -> IF r >= IntBits THEN 0 ELSE Wrap(l * (2 ^ r))
      [] op = ">>" -> IF r >= IntBits THEN (IF l < 0 THEN -1 ELSE 0) ELSE l \div (2 ^ r)
      [] op = "&" -> Wrap(RefAnd(l, r))
      [] op = "|" -> Wrap(RefOr(l, r))
      [] op = "^" -> Wrap(RefXor(l, r))
      [] OTHER -> Wrap(RefNot(RefXor(l, r)))

OnesOf(v) == Cardinality({i \in 0..(IntBits - 1) : Bit(v, i) = 1})

RefUnop(op, v) ==
    CASE op = "~" -> Wrap(RefNot(v))
      [] op = "&" -> IF OnesOf(v) = IntBits THEN 1 ELSE 0
      [] op = "~&" -> IF OnesOf(v) = IntBits THEN 0 ELSE 1
      [] op = "|" -> IF OnesOf(v) > 0 THEN 1 ELSE 0
      [] op = "~|" -> IF OnesOf(v) > 0 THEN 0 ELSE 1
      [] op = "^" -> OnesOf(v) % 2
      [] op \in {"^~", "~^"} -> 1 - (OnesOf(v) % 2)
      [] op = "+" -> v
      [] OTHER -> Wrap(-v)

\* The operands a binary operator can be waiting for
MaxOperands == 2

\* An operand: the value the Elaborator deposited, the value of the expression
\* under two's-complement arithmetic, and whether the expression is built only
\* from unsized literals and the arithmetic operators on operands they define
Operand(val, ref, arith) == [val |-> val, ref |-> ref, arith |-> arith]

NoNode == [node |-> "none", op |-> "", operands |-> <<>>]

ArInit ==
    /\ arStack = <<>>
    /\ arFault = FALSE
    /\ arLast = NoNode

\* The folds so far agree with two's-complement arithmetic
Agrees(e) == e.arith => e.val = IntV(e.ref)

ArReady ==
    /\ ~arFault
    /\ \A k \in 1..Len(arStack) : Agrees(arStack[k])

ArDeposit(rest, e) ==
    /\ arStack' = Append(rest, e)
    /\ arFault' = (e.val = FaultV)

exitIntLiteral(n) ==
    /\ ArReady
    /\ Len(arStack) < MaxOperands
    /\ ArDeposit(arStack, Operand(ParseUnsizedLiteral(n), Wrap(n), TRUE))
    /\ arLast' = [node |-> "IntLiteral", op |-> "", operands |-> <<n>>]

\* exitVarExpr for the variables True and False
exitBoolVarExpr(b) ==
    /\ ArReady
    /\ Len(arStack) < MaxOperands
    /\ ArDeposit(arStack, Operand(BoolV(b), 0, FALSE))
    /\ arLast' = [node |-> "VarExpr", op |-> "", operands |-> <<b>>]

exitUnopExpr(op) ==
    /\ ArReady
    /\ Len(arStack) >= 1
    /\ LET e == arStack[Len(arStack)]
           rest == SubSeq(arStack, 1, Len(arStack) - 1)
           arith == e.arith /\ op \in ArithUnops
       IN  \E res \in UnopOutcomes(op, e.val) :
               ArDeposit(rest, Operand(res, IF arith THEN RefUnop(op, e.ref) ELSE 0, arith))
    /\ arLast' = [node |-> "UnopExpr", op |-> op, operands |-> <<arStack[Len(arStack)].val>>]

exitBinopExpr(op) ==
    /\ ArReady
    /\ Len(arStack) >= 2
    /\ LET left == arStack[Len(arStack) - 1]
           right == arStack[Len(arStack)]
           rest == SubSeq(arStack, 1, Len(arStack) - 2)
           arith == /\ left.arith
                    /\ right.arith
                    /\ op \in ArithBinops
                    /\ RefDefined(op, left.ref, right.ref)
       IN  \E res \in BinopOutcomes(op, left.val, right.val) :
               ArDeposit(rest, Operand(res, IF arith THEN RefBinop(op, left.ref, right.ref)
                                            ELSE 0, arith))
    /\ arLast' = [node |-> "BinopExpr", op |-> op,
                  operands |-> <<arStack[Len(arStack) - 1].val, arStack[Len(arStack)].val>>]

(***************************************************************************)
(* TranslatedCode (translate.cpp:93-217)                                   *)
(***************************************************************************)

\* The emit calls of a run
MaxTcOps == 5

\* The parse tree emitted: a statement with an identifier, an expression
\* holding a literal, and a rule that matched nothing
TcNodes == {"stmt", "id", "expr", "lit", "opt"}

NullNode == "nullptr"

\* prCtx->children of the ParserRuleContexts; the other nodes are terminals
TcChildren == [stmt |-> <<"id", "expr", "opt">>, expr |-> <<"lit">>, opt |-> <<>>]

IsRuleContext(ctx) == ctx \in DOMAIN TcChildren

\* ctx->getText() of the terminals
TokenText == [id |-> "x", lit |-> "12"]

\* The hidden-channel text between child i - 1 and child i of ctx (empty when
\* the source intervals are adjacent)
InterCtxText(ctx, i) == IF ctx = "stmt" /\ i = 2 THEN " " ELSE ""

\* The objects: the one the emitter writes and one built by the Elaborator as
\* the value of a node (created with skipSpaces)
TcObjects == {"main", "sub"}

\* More values of Any
TextV(sv) == [t |-> "text", sv |-> sv]

SkipV == [t |-> "skip"]

PuV(pu) == [t |-> "pu", pu |-> pu]

\* a TranslatedCodePtr: it points to the object sub
TranslatedV == [t |-> "translated"]

\* The values the Elaborator deposits on nodes, and the nodes it deposits them on
TcAnyValues ==
    {NullV, IntV(12), BoolV(TRUE), TextV(""), SkipV, TranslatedV,
     PuV([name |-> "f", params |-> <<IntParam(1)>>, escape |-> TRUE])}

ValuedNodes == {"expr"}

\* code << value for an int64_t
IntText(v) == ToString(v)

NewTranslatedCode(skipSpaces) ==
    [skipSpaces |-> skipSpaces,
     dstToSrc |-> EmptyMap,
     dstToInfo |-> EmptyMap,
     code |-> "",
     emitStack |-> <<>>,
     parametricUsesEmitted |-> <<>>,
     \* the process has died in an assert of this object
     failed |-> FALSE,
     \* every emitEnd so far: the positions and whether it left the maps alone
     ends |-> {}]

TcPos(tc) == Len(tc.code)

\* emit(std::string_view)
TcEmitText(tc, sv) == [tc EXCEPT !.code = @ \o sv]

TcEmitStart(tc, ctx) == [tc EXCEPT !.emitStack = Append(@, [ctx |-> ctx, pos |-> TcPos(tc)])]

\* if (startPos == endPos) return;
MutEmptySpan(startPos, endPos) == FALSE

EmptySpan(startPos, endPos) == startPos = endPos

TcEmitEnd(tc, ctxInfo) ==
    IF tc.emitStack = <<>> THEN [tc EXCEPT !.failed = TRUE]
    ELSE LET top == tc.emitStack[Len(tc.emitStack)]
             popped == [tc EXCEPT !.emitStack = SubSeq(@, 1, Len(@) - 1)]
             startPos == top.pos
             endPos == TcPos(tc)
             range == <<startPos, endPos>>
             res == IF EmptySpan(startPos, endPos) THEN popped
                    ELSE [popped EXCEPT
                            !.dstToSrc = MapPut(@, range, top.ctx),
                            !.dstToInfo = IF ctxInfo # "" THEN MapPut(@, range, ctxInfo) ELSE @]
         IN  [res EXCEPT !.ends = @ \cup {[startPos |-> startPos, endPos |-> endPos,
                                          same |-> /\ res.dstToSrc = tc.dstToSrc
                                                   /\ res.dstToInfo = tc.dstToInfo]}]

\* The ranges of a map shifted by offset
ShiftRanges(f, offset) ==
    [r \in {<<q[1] + offset, q[2] + offset>> : q \in DOMAIN f} |->
        f[<<r[1] - offset, r[2] - offset>>]]

MapMerge(f, g) == [r \in (DOMAIN f) \cup (DOMAIN g) |-> IF r \in DOMAIN g THEN g[r] ELSE f[r]]

\* The merge of the TranslatedCode tc that is the value of a node
TcSplice(this, tc) ==
    IF tc.emitStack # <<>> THEN [this EXCEPT !.failed = TRUE]
    ELSE LET offset == TcPos(this)
         IN  [this EXCEPT
                !.dstToSrc = MapMerge(@, ShiftRanges(tc.dstToSrc, offset)),
                !.dstToInfo = MapMerge(@, ShiftRanges(tc.dstToInfo, offset)),
                !.parametricUsesEmitted = @ \o tc.parametricUsesEmitted,
                !.code = @ \o tc.code]

\* emit(tree::ParseTree*), with getValue reading vals and a TranslatedCodePtr
\* pointing to sub
RECURSIVE TcEmit(_, _, _, _)
RECURSIVE TcEmitChildren(_, _, _, _, _)
TcEmit(tc, ctx, vals, sub) ==
    IF ctx = NullNode \/ tc.failed THEN tc
    ELSE LET started == TcEmitStart(tc, ctx)
             value == vals[ctx]
             body ==
                 CASE value.t = "int" -> TcEmitText(started, IntText(value.i))
                   [] value.t = "bool" -> TcEmitText(started, IF value.b THEN "True" ELSE "False")
                   [] value.t = "text" -> TcEmitText(started, value.sv)
                   [] value.t = "pu" ->
                        [TcEmitText(started, PuStr(value.pu, FALSE)) EXCEPT
                            !.parametricUsesEmitted = Append(@, [pu |-> value.pu, ctx |-> ctx])]
                   [] value.t = "skip" -> started
                   [] value.t = "translated" -> TcSplice(started, sub)
                   [] OTHER -> IF IsRuleContext(ctx) THEN TcEmitChildren(started, ctx, 1, vals, sub)
                               ELSE TcEmitText(started, TokenText[ctx])
         IN  IF body.failed THEN body ELSE TcEmitEnd(body, "")

TcEmitChildren(tc, ctx, i, vals, sub) ==
    IF i > Len(TcChildren[ctx]) \/ tc.failed THEN tc
    ELSE LET spaced == IF ~tc.skipSpaces /\ i > 1 /\ InterCtxText(ctx, i) # ""
                       THEN TcEmitText(tc, InterCtxText(ctx, i)) ELSE tc
         IN  TcEmitChildren(TcEmit(spaced, TcChildren[ctx][i], vals, sub), ctx, i + 1, vals, sub)

\* Elaborator::setValue
SetValue(vals, ctx, value) ==
    IF value = NullV /\ vals[ctx] = NullV THEN vals ELSE [vals EXCEPT ![ctx] = value]

\* The nodes emit(ctx) reaches whose value is a TranslatedCodePtr
RECURSIVE Splices(_, _)
Splices(ctx, vals) ==
    IF vals[ctx].t = "translated" THEN TRUE
    ELSE IF vals[ctx].t \in {"null", "error"} /\ IsRuleContext(ctx)
    THEN \E i \in 1..Len(TcChildren[ctx]) : Splices(TcChildren[ctx][i], vals)
    ELSE FALSE

NoCall == [op |-> "none", object |-> ""]

TcInit ==
    /\ tcs = [o \in TcObjects |-> NewTranslatedCode(o = "sub")]
    /\ tcValues = [n \in TcNodes |-> NullV]
    /\ tcOps = 0
    /\ tcLast = NoCall

TcReady ==
    /\ tcOps < MaxTcOps
    /\ \A o \in TcObjects : ~tcs[o].failed

TcCall(o, op, tc) ==
    /\ tcs' = [tcs EXCEPT ![o] = tc]
    /\ tcOps' = tcOps + 1
    /\ tcLast' = [op |-> op, object |-> o]
    /\ UNCHANGED tcValues

emitText(o, sv) ==
    /\ TcReady
    /\ TcCall(o, "emitText", TcEmitText(tcs[o], sv))

emitStart(o, ctx) ==
    /\ TcReady
    /\ TcCall(o, "emitStart", TcEmitStart(tcs[o], ctx))

emitEnd(o, ctxInfo) ==
    /\ TcReady
    /\ TcCall(o, "emitEnd", TcEmitEnd(tcs[o], ctxInfo))

\* A TranslatedCode is made the value of a node after it has emitted: it never
\* emits a node whose value it is
emit(o, ctx) ==
    /\ TcReady
    /\ o = "sub" => ~Splices(ctx, tcValues)
    /\ TcCall(o, "emit", TcEmit(tcs[o], ctx, tcValues, tcs["sub"]))

setValue(ctx, value) ==
    /\ TcReady
    /\ SetValue(tcValues, ctx, value) # tcValues
    /\ tcValues' = SetValue(tcValues, ctx, value)
    /\ tcOps' = tcOps + 1
    /\ tcLast' = [op |-> "setValue", object |-> ctx]
    /\ UNCHANGED tcs

(***************************************************************************)
(* parseFileAndImports (parse.cpp:302-351)                                 *)
(***************************************************************************)

\* The source files on the Minispec path, by the name findImportedFile gives
\* them, and the file named on the command line
Files == {"A.ms", "B.ms", "C.ms"}

RootFile == "A.ms"

\* The import items of a file
MaxImports == 2

ImportLists == UNION {[1..n -> Files] : n \in 0..MaxImports}

\* A frame of a recursive call: the file and the next import to visit
Frame(f) == [file |-> f, idx |-> 1]

Top(frames) == frames[Len(frames)]

Pop(frames) == SubSeq(frames, 1, Len(frames) - 1)

\* The caller's loop moves on to its next import
Advance(frames) ==
    IF frames = <<>> THEN frames
    ELSE [frames EXCEPT ![Len(frames)].idx = @ + 1]

InSeq(x, sq) == \E k \in 1..Len(sq) : sq[k] = x

ImpInitDefault ==
    /\ impSource = [f \in Files |-> <<>>]
    /\ impPhase = "start"
    /\ parsedFiles = {}
    /\ imports = [f \in Files |-> <<>>]
    /\ impFrames = <<>>
    /\ path = <<>>
    /\ sortedTrees = <<>>
    /\ impError = <<>>

ImpInit ==
    /\ impSource \in [Files -> ImportLists]
    /\ impPhase = "start"
    /\ parsedFiles = {}
    /\ imports = [f \in Files |-> <<>>]
    /\ impFrames = <<>>
    /\ path = <<>>
    /\ sortedTrees = <<>>
    /\ impError = <<>>

\* parseFileAndImports(parsedFilesMap, fileName, path) is entered for the root:
\* the file is parsed and entered in the map before its imports are followed
ParseRoot ==
    /\ impPhase = "start"
    /\ impPhase' = "parse"
    /\ parsedFiles' = parsedFiles \cup {RootFile}
    /\ impFrames' = <<Frame(RootFile)>>
    /\ UNCHANGED <<impSource, imports, path, sortedTrees, impError>>

\* The loop over the import items reaches the next item: a file already in the
\* map is returned at once and pushed on the imports, another one is parsed,
\* entered in the map, and its own imports are followed first
ParseImport ==
    /\ impPhase = "parse"
    /\ impFrames # <<>>
    /\ LET fr == Top(impFrames)
       IN  /\ fr.idx <= Len(impSource[fr.file])
           /\ LET importFile == impSource[fr.file][fr.idx]
              IN  IF importFile \in parsedFiles
                  THEN /\ imports' = [imports EXCEPT ![fr.file] = Append(@, importFile)]
                       /\ impFrames' = Advance(impFrames)
                       /\ UNCHANGED parsedFiles
                  ELSE /\ parsedFiles' = parsedFiles \cup {importFile}
                       /\ impFrames' = Append(impFrames, Frame(importFile))
                       /\ UNCHANGED imports
    /\ UNCHANGED <<impSource, impPhase, path, sortedTrees, impError>>

\* The loop of a file ends: the ParsedFile is returned, to the loop that pushes
\* it on its imports or to the caller that sorts
ParseReturn ==
    /\ impPhase = "parse"
    /\ impFrames # <<>>
    /\ LET fr == Top(impFrames)
           rest == Pop(impFrames)
       IN  /\ fr.idx > Len(impSource[fr.file])
           /\ impFrames' = Advance(rest)
           /\ IF rest = <<>>
              THEN /\ impPhase' = "sort"
                   /\ UNCHANGED imports
              ELSE /\ imports' = [imports EXCEPT ![Top(rest).file] = Append(@, fr.file)]
                   /\ UNCHANGED impPhase
    /\ UNCHANGED <<impSource, parsedFiles, path, sortedTrees, impError>>

\* std::find(out.begin(), out.end(), pf->tree) == out.end()
MutNotSorted(pf, out) == TRUE

NotSorted(pf, out) == ~InSeq(pf, out)

\* The names from the first occurrence of pf on the path, then pf
CycleText(pf, pth) ==
    LET first == CHOOSE k \in 1..Len(pth) : pth[k] = pf /\ \A j \in 1..(k - 1) : pth[j] # pf
    IN  Append(SubSeq(pth, first, Len(pth)), pf)

\* topoSort(pf, out) is entered, for the root or for the next import of the
\* file whose imports are being visited
TopoSortEnter ==
    /\ impPhase = "sort"
    /\ impFrames = <<>> => path = <<>> /\ sortedTrees = <<>>
    /\ impFrames # <<>> => Top(impFrames).idx <= Len(imports[Top(impFrames).file])
    /\ LET pf == IF impFrames = <<>> THEN RootFile
                 ELSE imports[Top(impFrames).file][Top(impFrames).idx]
       IN  IF InSeq(pf, path)
           THEN /\ impPhase' = "error"
                /\ impError' = CycleText(pf, path)
                /\ UNCHANGED <<impFrames, path>>
           ELSE IF NotSorted(pf, sortedTrees)
           THEN /\ path' = Append(path, pf)
                /\ impFrames' = Append(impFrames, Frame(pf))
                /\ UNCHANGED <<impPhase, impError>>
           ELSE /\ impFrames' = Advance(impFrames)
                /\ UNCHANGED <<impPhase, impError, path>>
    /\ UNCHANGED <<impSource, parsedFiles, imports, sortedTrees>>

\* The imports of pf have been visited: pf leaves the path and its tree is
\* pushed on the output
TopoSortLeave ==
    /\ impPhase = "sort"
    /\ impFrames # <<>>
    /\ LET fr == Top(impFrames)
           rest == Pop(impFrames)
       IN  /\ fr.idx > Len(imports[fr.file])
           /\ path' = Pop(path)
           /\ sortedTrees' = Append(sortedTrees, fr.file)
           /\ impFrames' = Advance(rest)
           /\ impPhase' = IF rest = <<>> THEN "returned" ELSE impPhase
    /\ UNCHANGED <<impSource, parsedFiles, imports, impError>>

(***************************************************************************)
(* Elaboration steps and the work loop of translateFiles                   *)
(* (translate.cpp:498-538, 909-979, 1556-1708)                             *)
(***************************************************************************)

\* static uint64_t maxElabSteps = 50000 and maxDepth = 1000: the limits of
\* registerElabStep, scaled to what the designs explored can reach
maxElabSteps == 6
maxDepth == 4

\* The statements of the top-level code of a design
MaxTopItems == 2

\* Arguments of a parametric use as written: a literal, an Integer variable
\* plus a literal, a type, or a name that may be a type formal
LitArg(v) == [k |-> "lit", v |-> v, name |-> "", pu |-> NoPu]

VarArg(name, add) == [k |-> "var", v |-> add, name |-> name, pu |-> NoPu]

TypeArg(pu) == [k |-> "type", v |-> 0, name |-> "", pu |-> pu]

TypeNameArg(name) == [k |-> "tname", v |-> 0, name |-> name, pu |-> NoPu]

NoUse == [name |-> "", args |-> <<>>]

\* Statements: an expression that prints a parametric use, the same inside
\* if (var > 0), and a for loop for (Integer i = 0; i < bound; i = i + step)
\* whose body prints a use or nothing
UseItem(name, args) ==
    [k |-> "use", use |-> [name |-> name, args |-> args], guard |-> "", bound |-> 0, step |-> 0]

IfItem(guard, name, args) ==
    [k |-> "use", use |-> [name |-> name, args |-> args], guard |-> guard, bound |-> 0, step |-> 0]

ForItem(bound, step, use) ==
    [k |-> "for", use |-> use, guard |-> "", bound |-> bound, step |-> step]

\* no for loop is being unrolled
NoLoop == [k |-> "none", use |-> NoUse, guard |-> "", bound |-> 0, step |-> 0]

IndVar == "i"

\* paramFormal: Integer name, type name, or a param (a partial specialization)
IntFormal(name) == [kind |-> "int", name |-> name, value |-> 0]

TypeFormal(name) == [kind |-> "type", name |-> name, value |-> 0]

ParamFormal(v) == [kind |-> "param", name |-> "", value |-> v]

BitType == [name |-> "Bit", params |-> <<IntParam(8)>>, escape |-> FALSE]

\* The parametric functions the package defines
LocalDefs ==
    [leaf |-> [formals |-> <<IntFormal("n")>>, body |-> <<>>],
     up   |-> [formals |-> <<IntFormal("n")>>,
               body |-> <<UseItem("up", <<VarArg("n", 1)>>)>>],
     down |-> [formals |-> <<IntFormal("n")>>,
               body |-> <<IfItem("n", "down", <<VarArg("n", -1)>>)>>],
     pair |-> [formals |-> <<IntFormal("n")>>,
               body |-> <<UseItem("leaf", <<VarArg("n", 0)>>),
                          UseItem("leaf", <<VarArg("n", 0)>>)>>],
     dup  |-> [formals |-> <<IntFormal("n"), IntFormal("n")>>, body |-> <<>>],
     box  |-> [formals |-> <<TypeFormal("T")>>,
               body |-> <<UseItem("ext", <<TypeNameArg("T")>>)>>],
     loop |-> [formals |-> <<IntFormal("n")>>,
               body |-> <<ForItem(VarArg("n", 0), 1,
                                  [name |-> "leaf", args |-> <<VarArg(IndVar, 0)>>])>>],
     part |-> [formals |-> <<IntFormal("n"), ParamFormal(4)>>, body |-> <<>>],
     wide |-> [formals |-> <<IntFormal("w")>>, body |-> <<>>]]

\* The statements the top-level code is made of
TopItems ==
    {UseItem("leaf", <<LitArg(1)>>),
     UseItem("leaf", <<LitArg(1), LitArg(2)>>),
     UseItem("leaf", <<TypeArg(BitType)>>),
     UseItem("leaf", <<VarArg("undefined", 0)>>),
     UseItem("up", <<LitArg(1)>>),
     UseItem("down", <<LitArg(2)>>),
     UseItem("pair", <<LitArg(1)>>),
     UseItem("dup", <<LitArg(1), LitArg(2)>>),
     UseItem("box", <<TypeArg(BitType)>>),
     UseItem("box", <<LitArg(1)>>),
     UseItem("ext", <<LitArg(1)>>),
     UseItem("loop", <<LitArg(2)>>),
     UseItem("part", <<LitArg(1), LitArg(4)>>),
     UseItem("part", <<LitArg(1), LitArg(5)>>),
     ForItem(LitArg(maxElabSteps + 1), 1, NoUse),
     ForItem(LitArg(1), 0, NoUse),
     ForItem(LitArg(2), 1, [name |-> "leaf", args |-> <<VarArg(IndVar, 0)>>])}

TopCodes == UNION {[1..n -> TopItems] : n \in 0..MaxTopItems}

\* The value of an Integer expression "name + add" (an int64_t, or an error
\* when the variable is unknown, unset or poisoned)
VarValue(lv, name, add) ==
    LET g == IcGet(lv, name)
    IN  IF g.found /\ g.state = "VALID" THEN IntV(g.value + add)
        ELSE ErrV("could not elaborate Integer expression")

\* createParametricUsePtr(name, params): the use, and the errors reported
\* for the Integer parameters without a value (these are left out of the use)
RECURSIVE UseParams(_, _, _)
UseParams(lv, args, i) ==
    IF i > Len(args) THEN [params |-> <<>>, errs |-> {}]
    ELSE LET a == args[i]
             rest == UseParams(lv, args, i + 1)
             val == IF a.k = "lit" THEN IntV(a.v) ELSE VarValue(lv, a.name, a.v)
             formalPu == IcGetType(lv, a.name)
         IN  CASE a.k \in {"lit", "var"} ->
                    IF val.t = "int"
                    THEN [rest EXCEPT !.params = <<IntParam(val.i)>> \o @]
                    ELSE [rest EXCEPT !.errs = @ \cup {"ElabError"}]
               [] a.k = "type" -> [rest EXCEPT !.params = <<PuParam(a.pu)>> \o @]
               [] OTHER ->
                    IF formalPu.found
                    THEN [rest EXCEPT !.params = <<PuParam(formalPu.pu)>> \o @]
                    ELSE [rest EXCEPT !.params =
                            <<PuParam([name |-> a.name, params |-> <<>>,
                                       escape |-> IsLower(a.name)])>> \o @]

ElabUse(lv, use) ==
    LET ps == UseParams(lv, use.args, 1)
    IN  [pu |-> [name |-> use.name, params |-> ps.params, escape |-> IsLower(use.name)],
         errs |-> ps.errs]

\* createParametricUsePtr(name, paramFormals) on the elaborated formals
RECURSIVE FormalParams(_, _, _)
FormalParams(lv, formals, i) ==
    IF i > Len(formals) THEN <<>>
    ELSE LET pf == formals[i]
             p == CASE pf.kind = "int" -> IntParam(IcGet(lv, pf.name).value)
                    [] pf.kind = "type" -> PuParam(IcGetType(lv, pf.name).pu)
                    [] OTHER -> IntParam(pf.value)
         IN  <<p>> \o FormalParams(lv, formals, i + 1)

Signature(lv, name, formals) ==
    [name |-> name, params |-> FormalParams(lv, formals, 1), escape |-> IsLower(name)]

\* unordered_set<ParametricUse>::count and insert
MutHasUse(uses, p) == \E q \in uses : q.name = p.name

HasUse(uses, p) == \E q \in uses : PuEq(q, p)

InsertUse(uses, p) == IF HasUse(uses, p) THEN uses ELSE uses \cup {p}

\* isConcrete(paramFormals) at package level, where no formal has a value
IsConcrete(lv, formals) ==
    \A i \in 1..Len(formals) :
        /\ formals[i].kind = "int" => IcGet(lv, formals[i].name).found
        /\ formals[i].kind = "type" => IcGetType(lv, formals[i].name).found

\* registerElabStep: the limit it finds exceeded, "" for none
MutElabLimit(steps, depth) == IF depth > maxDepth THEN "depth" ELSE ""

ElabLimit(steps, depth) ==
    IF steps > maxElabSteps THEN "steps"
    ELSE IF depth > maxDepth THEN "depth"
    ELSE ""

\* The binding of the params of p to the formals: the context afterwards and
\* the errors reported
RECURSIVE BindParams(_, _, _, _)
BindParams(lv, formals, params, i) ==
    IF i > Len(formals) THEN [levels |-> lv, errs |-> {}, matchError |-> FALSE]
    ELSE LET pf == formals[i]
         IN  CASE pf.kind = "int" ->
                    IF ~params[i].isInt
                    THEN LET r == BindParams(lv, formals, params, i + 1)
                         IN  [r EXCEPT !.errs = @ \cup {"is not an Integer"},
                                       !.matchError = TRUE]
                    ELSE BindParams(IcSet(IcDefineVar(lv, pf.name, TRUE).levels,
                                          pf.name, params[i].int).levels,
                                    formals, params, i + 1)
               [] pf.kind = "type" ->
                    IF params[i].isInt
                    THEN LET r == BindParams(lv, formals, params, i + 1)
                         IN  [r EXCEPT !.errs = @ \cup {"is not a type"},
                                       !.matchError = TRUE]
                    ELSE BindParams(IcSetType(lv, pf.name, params[i].pu),
                                    formals, params, i + 1)
               [] OTHER ->
                    LET r == BindParams(lv, formals, params, i + 1)
                    IN  [r EXCEPT !.errs = @ \cup {"partially specialized"}]

ElabInitDefault ==
    /\ elabTop = <<>>
    /\ elabStatus = "start"
    /\ parametrics = EmptyMap
    /\ elabItems = <<>>
    /\ elabFor = NoLoop
    /\ elabOut = <<>>
    /\ tcUses = <<>>
    /\ paramUses = <<>>
    /\ useIdx = 1
    /\ elabSig = NoPu
    /\ elabDepth = 0
    /\ numElabSteps = 0
    /\ parametricsEmitted = {}
    /\ emittedSpecs = <<>>
    /\ printedUses = <<>>
    /\ elabErrs = {}
    /\ elabFatal = ""

ElabInit ==
    /\ elabTop \in TopCodes
    /\ elabStatus = "start"
    /\ parametrics = EmptyMap
    /\ elabItems = <<>>
    /\ elabFor = NoLoop
    /\ elabOut = <<>>
    /\ tcUses = <<>>
    /\ paramUses = <<>>
    /\ useIdx = 1
    /\ elabSig = NoPu
    /\ elabDepth = 0
    /\ numElabSteps = 0
    /\ parametricsEmitted = {}
    /\ emittedSpecs = <<>>
    /\ printedUses = <<>>
    /\ elabErrs = {}
    /\ elabFatal = ""

Walking == elabStatus \in {"top", "inst"}

NoFor == elabFor.k # "for"

IcGhosts == <<icEntry, icTargets, lastSet, lastExit, icOps>>

\* The Integer variables the package defines before its definitions (a
\* varDecl packageStmt, exitVarBinding): Integer w = 2;
PackageIntegers == <<[var |-> "w", value |-> 2]>>

RECURSIVE DefineIntegers(_, _, _)
DefineIntegers(lv, decls, i) ==
    IF i > Len(decls) THEN lv
    ELSE DefineIntegers(IcSet(IcDefineVar(lv, decls[i].var, TRUE).levels,
                              decls[i].var, decls[i].value).levels, decls, i + 1)

\* The packageStmts that define the parametrics, in the order of the package
DefOrder == <<"leaf", "up", "down", "pair", "dup", "box", "loop", "part", "wide">>

\* What exitPackageDef walks in the first pass: the definitions it finds
\* concrete, their signatures (exitFunctionId) and their bodies
RECURSIVE ConcreteDefs(_, _)
ConcreteDefs(lv, i) ==
    IF i > Len(DefOrder) THEN [names |-> {}, sigs |-> <<>>, items |-> <<>>]
    ELSE LET name == DefOrder[i]
             def == LocalDefs[name]
             rest == ConcreteDefs(lv, i + 1)
         IN  IF IsConcrete(lv, def.formals)
             THEN [names |-> rest.names \cup {name},
                   sigs |-> <<Signature(lv, name, def.formals)>> \o rest.sigs,
                   items |-> def.body \o rest.items]
             ELSE rest

RECURSIVE InsertUses(_, _, _)
InsertUses(uses, sigs, i) ==
    IF i > Len(sigs) THEN uses ELSE InsertUses(InsertUse(uses, sigs[i]), sigs, i + 1)

\* The Elaborator walks the package: exitPackageDef walks the varDecls, enters
\* the parametrics that are not concrete in the ParametricsMap without walking
\* them, walks those it finds concrete, and walks the function that holds the
\* top-level code, in its mutable level
WalkPackage ==
    /\ elabStatus = "start"
    /\ elabStatus' = "top"
    /\ \E defined \in {DefineIntegers(levels, PackageIntegers, 1)} :
       \E concrete \in {ConcreteDefs(defined, 1)} :
          /\ parametrics' = [n \in (DOMAIN LocalDefs) \ concrete.names |-> LocalDefs[n]]
          /\ levels' = IcEnterMutable(defined)
          /\ elabItems' = concrete.items \o elabTop
          /\ elabOut' = concrete.sigs
          /\ parametricsEmitted' = InsertUses(parametricsEmitted, concrete.sigs, 1)
    /\ UNCHANGED <<elabTop, elabFor, tcUses, paramUses, useIdx, elabSig, elabDepth,
                   numElabSteps, emittedSpecs, printedUses, elabErrs,
                   elabFatal, IcGhosts>>

\* An expression with a parametric use is left: the use is its value, and it
\* is printed unless it is inside an if whose condition folds to False
WalkUse ==
    /\ Walking
    /\ NoFor
    /\ elabItems # <<>>
    /\ Head(elabItems).k = "use"
    /\ LET item == Head(elabItems)
           e == ElabUse(levels, item.use)
           cond == VarValue(levels, item.guard, 0)
           taken == item.guard = "" \/ cond.t # "int" \/ cond.i > 0
       IN  /\ elabOut' = IF taken THEN Append(elabOut, e.pu) ELSE elabOut
           /\ elabErrs' = elabErrs \cup e.errs
    /\ elabItems' = Tail(elabItems)
    /\ UNCHANGED <<elabTop, elabStatus, parametrics, elabFor, tcUses, paramUses, useIdx,
                   elabSig, elabDepth, numElabSteps, parametricsEmitted, emittedSpecs,
                   printedUses, elabFatal, levels, IcGhosts>>

\* exitForStmt up to the loop: the loop's mutable level and the induction
\* variable, set to the initial value 0
EnterFor ==
    /\ Walking
    /\ NoFor
    /\ elabItems # <<>>
    /\ Head(elabItems).k = "for"
    /\ elabFor' = Head(elabItems)
    /\ levels' = LET lv == IcEnterMutable(levels)
                 IN  IcSet(IcDefineVar(lv, IndVar, TRUE).levels, IndVar, 0).levels
    /\ UNCHANGED <<elabTop, elabStatus, parametrics, elabItems, elabOut, tcUses, paramUses,
                   useIdx, elabSig, elabDepth, numElabSteps, parametricsEmitted,
                   emittedSpecs, printedUses, elabErrs, elabFatal, IcGhosts>>

\* One turn of the while (true) of exitForStmt: the condition, and when it
\* holds the step registered, the body walked and the update
ForIteration ==
    /\ Walking
    /\ ~NoFor
    /\ LET indVar == IcGet(levels, IndVar).value
           bound == IF elabFor.bound.k = "lit" THEN IntV(elabFor.bound.v)
                    ELSE VarValue(levels, elabFor.bound.name, elabFor.bound.v)
           limit == ElabLimit(numElabSteps + 1, 0)
           e == ElabUse(levels, elabFor.use)
       IN  IF bound.t # "int"
           THEN /\ elabErrs' = elabErrs \cup {"could not elaborate Boolean expression"}
                /\ levels' = IcExit(levels)
                /\ elabFor' = NoLoop
                /\ elabItems' = Tail(elabItems)
                /\ UNCHANGED <<elabOut, numElabSteps, elabStatus, elabFatal>>
           ELSE IF ~(indVar < bound.i)
           THEN /\ levels' = IcExit(levels)
                /\ elabFor' = NoLoop
                /\ elabItems' = Tail(elabItems)
                /\ UNCHANGED <<elabOut, numElabSteps, elabStatus, elabFatal, elabErrs>>
           ELSE /\ numElabSteps' = numElabSteps + 1
                /\ IF limit # ""
                   THEN /\ elabStatus' = "fatal"
                        /\ elabFatal' = limit
                        /\ UNCHANGED <<elabOut, elabErrs, levels, elabFor, elabItems>>
                   ELSE /\ elabOut' = IF elabFor.use = NoUse THEN elabOut
                                      ELSE Append(elabOut, e.pu)
                        /\ elabErrs' = IF elabFor.use = NoUse THEN elabErrs
                                       ELSE elabErrs \cup e.errs
                        /\ levels' = IcSet(levels, IndVar, indVar + elabFor.step).levels
                        /\ UNCHANGED <<elabStatus, elabFatal, elabFor, elabItems>>
    /\ UNCHANGED <<elabTop, parametrics, tcUses, paramUses, useIdx, elabSig, elabDepth,
                   parametricsEmitted, emittedSpecs, printedUses, IcGhosts>>

\* The walk of the package ends and tc.emit(tree) prints it, recording the
\* uses printed
EmitPackage ==
    /\ elabStatus = "top"
    /\ NoFor
    /\ elabItems = <<>>
    /\ elabStatus' = "loop"
    /\ levels' = IcExit(levels)
    /\ tcUses' = tcUses \o elabOut
    /\ printedUses' = printedUses \o elabOut
    /\ elabOut' = <<>>
    /\ paramUses' = <<>>
    /\ useIdx' = 1
    /\ UNCHANGED <<elabTop, parametrics, elabItems, elabFor, elabSig, elabDepth,
                   numElabSteps, parametricsEmitted, emittedSpecs, elabErrs, elabFatal,
                   IcGhosts>>

\* A round of the work loop begins: the uses printed since the last round are
\* dequeued; with none left the loop ends and exitIfErrors decides
StartRound ==
    /\ elabStatus = "loop"
    /\ useIdx > Len(paramUses)
    /\ elabDepth' = elabDepth + 1
    /\ paramUses' = tcUses
    /\ tcUses' = <<>>
    /\ useIdx' = 1
    /\ elabStatus' = IF tcUses # <<>> THEN "loop"
                     ELSE IF elabErrs = {} THEN "returned" ELSE "exited"
    /\ UNCHANGED <<elabTop, parametrics, elabItems, elabFor, elabOut, elabSig,
                   numElabSteps, parametricsEmitted, emittedSpecs, printedUses, elabErrs,
                   elabFatal, levels, IcGhosts>>

\* The next use of the round has no local definition or is emitted already
SkipUse ==
    /\ elabStatus = "loop"
    /\ useIdx <= Len(paramUses)
    /\ LET p == paramUses[useIdx]
       IN  p.name \notin DOMAIN parametrics \/ HasUse(parametricsEmitted, p)
    /\ useIdx' = useIdx + 1
    /\ UNCHANGED <<elabTop, elabStatus, parametrics, elabItems, elabFor, elabOut, tcUses,
                   paramUses, elabSig, elabDepth, numElabSteps, parametricsEmitted,
                   emittedSpecs, printedUses, elabErrs, elabFatal, levels, IcGhosts>>

\* What the body of the work loop does with the use p it instantiates: the
\* step is registered, the params are bound in a new immutable level, and
\* the walk of the definition begins (enterFunctionDef, exitFunctionId); on a
\* mismatch the error is reported and the loop continues, the level left
\* behind
Instantiate ==
    /\ elabStatus = "loop"
    /\ useIdx <= Len(paramUses)
    /\ paramUses[useIdx].name \in DOMAIN parametrics
    /\ ~HasUse(parametricsEmitted, paramUses[useIdx])
    /\ numElabSteps' = numElabSteps + 1
    /\ \E p \in {paramUses[useIdx]} :
       \E def \in {parametrics[p.name]} :
       \E limit \in {ElabLimit(numElabSteps + 1, elabDepth)} :
       \E entered \in {IcEnterImmutable(levels)} :
          IF limit # ""
          THEN /\ elabStatus' = "fatal"
               /\ elabFatal' = limit
               /\ UNCHANGED <<levels, elabErrs, useIdx, elabItems, elabSig, elabOut,
                              parametricsEmitted>>
          ELSE IF Len(p.params) # Len(def.formals)
          THEN /\ elabErrs' = elabErrs \cup {"parameters required"}
               /\ levels' = entered
               /\ useIdx' = useIdx + 1
               /\ UNCHANGED <<elabStatus, elabFatal, elabItems, elabSig, elabOut,
                              parametricsEmitted>>
          ELSE \E bound \in {BindParams(entered, def.formals, p.params, 1)} :
               IF bound.matchError
               THEN /\ elabErrs' = elabErrs \cup bound.errs
                    /\ levels' = bound.levels
                    /\ useIdx' = useIdx + 1
                    /\ UNCHANGED <<elabStatus, elabFatal, elabItems, elabSig, elabOut,
                                   parametricsEmitted>>
               ELSE \E walked \in {IcEnterMutable(bound.levels)} :
                    \E sig \in {Signature(walked, p.name, def.formals)} :
                       /\ elabErrs' = elabErrs \cup bound.errs
                       /\ levels' = walked
                       /\ elabStatus' = "inst"
                       /\ elabItems' = def.body
                       /\ elabSig' = sig
                       /\ elabOut' = <<sig>>
                       /\ parametricsEmitted' = InsertUse(parametricsEmitted, sig)
                       /\ UNCHANGED <<elabFatal, useIdx>>
    /\ UNCHANGED <<elabTop, parametrics, elabFor, tcUses, paramUses, elabDepth, emittedSpecs,
                   printedUses, IcGhosts>>

\* The walk of the definition ends (exitFunctionDef), the level of the params
\* is left, and the specialization is emitted
EmitSpecialization ==
    /\ elabStatus = "inst"
    /\ NoFor
    /\ elabItems = <<>>
    /\ elabStatus' = "loop"
    /\ levels' = IcExit(IcExit(levels))
    /\ tcUses' = tcUses \o elabOut
    /\ printedUses' = printedUses \o elabOut
    /\ emittedSpecs' = Append(emittedSpecs, elabSig)
    /\ elabOut' = <<>>
    /\ useIdx' = useIdx + 1
    /\ UNCHANGED <<elabTop, parametrics, elabItems, elabFor, elabSig, paramUses, elabDepth,
                   numElabSteps, parametricsEmitted, elabErrs, elabFatal, IcGhosts>>

(***************************************************************************)
(* Elaboration of statements (translate.cpp:712-979, 1139-1177)            *)
(***************************************************************************)

\* The statements of the body walked
MaxStmts == 3

\* getIntegerValue's result for an expression that is not an Integer
DummyValue == 42424242

\* Expressions: an Integer literal, a varExpr (True and False included) and a
\* binary operation
LitE(v) == [k |-> "lit", v |-> v]

VarE(name) == [k |-> "var", name |-> name]

BinE(op, l, r) == [k |-> "binop", op |-> op, l |-> l, r |-> r]

\* case (sel) matches label: body; ... default: body; endcase as an expression
CaseE(sel, arms, default) == [k |-> "case", sel |-> sel, arms |-> arms, default |-> default]

\* Statements: Integer var = e; var = e; if (cond) then else; for (Integer
\* var = init; cond; updVar = upd) body; case (sel) label: body ... default:
\* body endcase; begin body end
NoStmt == [k |-> "none"]

DeclS(var, e) == [k |-> "decl", var |-> var, e |-> e]

AssignS(var, e) == [k |-> "assign", var |-> var, e |-> e]

IfS(cond, then, else) == [k |-> "if", cond |-> cond, then |-> then, else |-> else]

ForS(var, init, cond, updVar, upd, body) ==
    [k |-> "for", var |-> var, init |-> init, cond |-> cond, updVar |-> updVar,
     upd |-> upd, body |-> body]

CaseS(sel, arms, default) == [k |-> "case", sel |-> sel, arms |-> arms, default |-> default]

BlockS(body) == [k |-> "block", body |-> body]

\* The definitions whose body is walked, and the levels the Elaborator has
\* entered when it reaches the body: a module is an immutable level, and its
\* methods and rules are mutable levels inside it
Scopes == {"function", "method", "rule", "block", "module"}

\* The module of a method or of a rule has bound Integer g = 7; before them
ModuleLevels ==
    IcSet(IcDefineVar(IcEnterImmutable(IcNew), "g", TRUE).levels, "g", 7).levels

ScopeLevels(scope) ==
    CASE scope = "function" -> IcEnterMutable(IcNew)
      [] scope = "block" -> IcEnterMutable(IcEnterMutable(IcNew))
      [] scope = "module" -> IcEnterImmutable(IcNew)
      [] OTHER -> IcEnterMutable(ModuleLevels)

PoisonedText == "is poisoned"

\* exitVarExpr without params
VarExprValue(lv, name) ==
    LET g == IcGet(lv, name)
    IN  IF name = "True" THEN BoolV(TRUE)
        ELSE IF name = "False" THEN BoolV(FALSE)
        ELSE IF ~g.found THEN ErrV("is not an Integer variable")
        ELSE IF g.state = "INVALID" THEN ErrV("is uninitialized")
        ELSE IF g.state = "POISONED" THEN ErrV(PoisonedText)
        ELSE IntV(g.value)

\* The value the walk leaves on an expression (exitCaseExpr leaves none)
RECURSIVE ExprValue(_, _)
ExprValue(lv, e) ==
    CASE e.k = "lit" -> IntV(e.v)
      [] e.k = "var" -> VarExprValue(lv, e.name)
      [] e.k = "case" -> NullV
      [] OTHER -> CHOOSE v \in BinopOutcomes(e.op, ExprValue(lv, e.l), ExprValue(lv, e.r)) : TRUE

\* What a case statement prints: the Elaborator sets no value on it
RECURSIVE Flatten(_, _)
Flatten(texts, i) == IF i > Len(texts) THEN <<>> ELSE texts[i] \o Flatten(texts, i + 1)

MutCaseText(selText, armTexts, taken) ==
    <<"case (">> \o selText \o <<") ">>
        \o (IF taken = 0 THEN Flatten(armTexts, 1) ELSE armTexts[taken]) \o <<"endcase">>

CaseText(selText, armTexts, taken) ==
    <<"case (">> \o selText \o <<") ">> \o Flatten(armTexts, 1) \o <<"endcase">>

\* The arm a case with constant selector and labels takes: the first whose
\* label equals the selector, the default otherwise (0 when not constant)
RECURSIVE TakenArm(_, _, _, _)
TakenArm(lv, sel, arms, i) ==
    IF i > Len(arms) THEN 0
    ELSE IF arms[i].label.k = "none" THEN i
    ELSE IF ExprValue(lv, arms[i].label).t # "int" \/ sel.t # "int" THEN 0
    ELSE IF ExprValue(lv, arms[i].label).i = sel.i THEN i
    ELSE TakenArm(lv, sel, arms, i + 1)

\* The items of a case with the default item last
CaseItems(c) == c.arms \o <<[label |-> NoStmt, body |-> c.default]>>

\* What TranslatedCode::emit prints for the expression: its value when it is
\* an Integer or a Bool, its children otherwise; exitCaseExprItem has wrapped
\* the body of every caseExprItem in parentheses
RECURSIVE ExprText(_, _)
RECURSIVE CaseExprArms(_, _, _)
ExprText(lv, e) ==
    LET v == ExprValue(lv, e)
    IN  CASE v.t = "int" -> <<IntText(v.i)>>
          [] v.t = "bool" -> <<IF v.b THEN "True" ELSE "False">>
          [] e.k = "var" -> <<e.name>>
          [] e.k = "case" ->
                CaseText(ExprText(IcEnterPoisoning(lv), e.sel),
                         CaseExprArms(IcEnterPoisoning(lv), CaseItems(e), 1),
                         TakenArm(IcEnterPoisoning(lv), ExprValue(IcEnterPoisoning(lv), e.sel),
                                  CaseItems(e), 1))
          [] OTHER -> ExprText(lv, e.l) \o <<" " \o e.op \o " ">> \o ExprText(lv, e.r)

CaseExprArms(lv, items, i) ==
    IF i > Len(items) THEN <<>>
    ELSE LET label == IF items[i].label.k = "none" THEN <<"default">>
                      ELSE ExprText(lv, items[i].label)
         IN  <<label \o <<": ", "(">> \o ExprText(lv, items[i].body) \o <<")", "; ">>>>
                 \o CaseExprArms(lv, items, i + 1)

\* The outcome of walking a statement: the IntegerContext, the pieces emit
\* prints for it, the errors reported, numElabSteps, whether registerElabStep
\* has ended the process, and what the handlers did
Res(lv, text, errs, steps, fatal, log) ==
    [levels |-> lv, text |-> text, errs |-> errs, steps |-> steps, fatal |-> fatal,
     log |-> log]

\* getIntegerValue
IntegerValue(v) == IF v.t = "int" THEN v.i ELSE DummyValue

IntegerErrs(v) == IF v.t = "int" THEN {} ELSE {"ElabError"}

\* exitVarBinding of an Integer: the value is Skip; a varInit without rhs
\* (s.e is NoStmt) is defined and not set
MutVarBinding(lv, s, steps) ==
    LET v == IF s.e.k = "none" THEN NullV ELSE ExprValue(lv, s.e)
        defined == IcDefineVar(lv, s.var, TRUE).levels
    IN  IF v.t # "int" THEN Res(defined, <<>>, {}, steps, FALSE, <<>>)
        ELSE Res(IcSet(defined, s.var, IntegerValue(v)).levels, <<>>, IntegerErrs(v), steps,
                 FALSE, <<>>)

VarBinding(lv, s, steps) ==
    LET v == ExprValue(lv, s.e)
        defined == IcDefineVar(lv, s.var, TRUE).levels
    IN  IF s.e.k = "none" THEN Res(defined, <<>>, {}, steps, FALSE, <<>>)
        ELSE Res(IcSet(defined, s.var, IntegerValue(v)).levels, <<>>, IntegerErrs(v), steps,
                 FALSE, <<>>)

\* exitVarAssign with a simpleLvalue: an Integer is set and the statement is
\* Skip; any other assignment is printed with the values of its expression
VarAssign(lv, s, steps) ==
    LET v == ExprValue(lv, s.e)
        r == IcSet(lv, s.var, IntegerValue(v))
    IN  IF IcIsInteger(lv, s.var)
        THEN Res(r.levels, <<>>, IntegerErrs(v), steps, FALSE,
                 <<[k |-> "set", var |-> s.var, ok |-> r.ok]>>)
        ELSE Res(lv, <<s.var \o " = ">> \o ExprText(lv, s.e) \o <<";">>, {}, steps, FALSE,
                 IF s.e.k = "case"
                 THEN <<[k |-> "case", sel |-> ExprValue(IcEnterPoisoning(lv), s.e.sel),
                         taken |-> TakenArm(IcEnterPoisoning(lv),
                                            ExprValue(IcEnterPoisoning(lv), s.e.sel),
                                            CaseItems(s.e), 1),
                         text |-> ExprText(lv, s.e),
                         armTexts |-> CaseExprArms(IcEnterPoisoning(lv), CaseItems(s.e), 1)]>>
                 ELSE <<[k |-> "use", e |-> s.e, value |-> v]>>)

\* exitIfStmt: the comment and the branch it emits for a Bool condition
IfComment(cond, hasElse) ==
    IF cond THEN "/* taken if */ "
    ELSE IF hasElse THEN "/* taken else */ "
    ELSE "/* non-taken if */ "

MutIfBranch(cond, hasElse, thenText, elseText) == <<"begin ">> \o thenText \o <<" end">>

IfBranch(cond, hasElse, thenText, elseText) ==
    IF cond THEN <<"begin ">> \o thenText \o <<" end">>
    ELSE IF hasElse THEN <<"begin ">> \o elseText \o <<" end">>
    ELSE <<>>

\* The annotation of a block of an unrolled for loop
MutIterationInfo(varName, indVar, next) == "iteration with " \o varName \o " = " \o IntText(next)

IterationInfo(varName, indVar, next) == "iteration with " \o varName \o " = " \o IntText(indVar)

\* The walk of a statement: enter, the children, exit
RECURSIVE ElabStmt(_, _, _)
RECURSIVE ElabStmts(_, _, _, _)
RECURSIVE ForLoop(_, _, _)
RECURSIVE CaseArms(_, _, _, _)

\* enterIfStmt, both branches, exitIfStmt
IfStmt(lv, s, steps) ==
    LET entered == IcEnterPoisoning(lv)
        cond == ExprValue(entered, s.cond)
        hasElse == s.else.k # "none"
        t == ElabStmt(entered, s.then, steps)
        e == IF hasElse /\ ~t.fatal THEN ElabStmt(t.levels, s.else, t.steps)
             ELSE Res(t.levels, <<>>, {}, t.steps, t.fatal, <<>>)
        text == IF cond.t = "bool"
                THEN <<IfComment(cond.b, hasElse)>> \o IfBranch(cond.b, hasElse, t.text, e.text)
                ELSE <<"if (">> \o ExprText(entered, s.cond) \o <<") ">> \o t.text
                        \o (IF hasElse THEN <<" else ">> \o e.text ELSE <<>>)
    IN  Res(IcExit(e.levels), text, t.errs \cup e.errs, e.steps, e.fatal,
            t.log \o e.log \o
                <<[k |-> "if", cond |-> cond, hasElse |-> hasElse, text |-> text,
                   thenText |-> t.text, elseText |-> e.text]>>)

\* What exitForStmt leaves in the log when it returns
ForEntry(s, st, end, text) ==
    [k |-> "for", end |-> end, text |-> text, blocks |-> st.blocks, starts |-> st.starts,
     conds |-> st.conds, registered |-> st.registered]

\* A for statement exitForStmt gives no value keeps its source text
ForSource(s) == <<"for (Integer " \o s.var \o " ...) ...">>

\* The while (true) of exitForStmt
ForLoop(lv, s, st) ==
    LET cond == ExprValue(lv, s.cond)
        start == IcGet(lv, s.var)
        limit == ElabLimit(st.steps + 1, 0)
        body == ElabStmt(lv, s.body, st.steps + 1)
        upd == ExprValue(body.levels, s.upd)
        block == <<"begin ">> \o body.text \o <<" end", "\n">>
        seen == [st EXCEPT !.conds = Append(@, cond)]
        stepped == [seen EXCEPT !.steps = @ + 1, !.registered = @ + 1,
                                !.starts = Append(@, start)]
        walked == [stepped EXCEPT
                     !.steps = body.steps,
                     !.errs = @ \cup body.errs,
                     !.log = @ \o body.log,
                     !.code = @ \o block,
                     !.blocks = Append(@, [text |-> block,
                                           info |-> IterationInfo(s.var, st.indVar,
                                                                  IntegerValue(upd))])]
    IN  IF cond.t # "bool"
        THEN Res(IcExit(lv), ForSource(s),
                 st.errs \cup {"could not elaborate Boolean expression"}, st.steps, FALSE,
                 st.log \o <<ForEntry(s, seen, "error", ForSource(s))>>)
        ELSE IF ~cond.b
        THEN Res(IcExit(lv), st.code, st.errs, st.steps, FALSE,
                 st.log \o <<ForEntry(s, seen, "done", st.code)>>)
        ELSE IF limit # ""
        THEN Res(lv, <<>>, st.errs, st.steps + 1, TRUE,
                 st.log \o <<ForEntry(s, stepped, "fatal", <<>>)>>)
        ELSE IF body.fatal
        THEN Res(body.levels, <<>>, st.errs \cup body.errs, body.steps, TRUE,
                 st.log \o body.log \o <<ForEntry(s, stepped, "fatal", <<>>)>>)
        ELSE IF upd.t # "int"
        THEN Res(IcExit(body.levels), ForSource(s), walked.errs \cup {"ElabError"},
                 body.steps, FALSE, walked.log \o <<ForEntry(s, walked, "error", ForSource(s))>>)
        ELSE ForLoop(IcSet(body.levels, s.var, upd.i).levels, s,
                     [walked EXCEPT !.indVar = upd.i])

\* exitForStmt
ForStmt(lv, s, steps) ==
    LET entered == IcEnterMutable(lv)
        indVar == ExprValue(entered, s.init)
        st == [steps |-> steps, indVar |-> IntegerValue(indVar),
               code |-> <<"/* for loop */">>, blocks |-> <<>>, starts |-> <<>>,
               conds |-> <<>>, registered |-> 0, errs |-> {}, log |-> <<>>]
    IN  IF s.updVar # s.var
        THEN Res(lv, ForSource(s), {"for loop must update the induction variable"}, steps,
                 FALSE, <<ForEntry(s, st, "error", ForSource(s))>>)
        ELSE IF indVar.t # "int"
        THEN Res(IcExit(entered), ForSource(s), {"ElabError"}, steps, FALSE,
                 <<ForEntry(s, st, "error", ForSource(s))>>)
        ELSE ForLoop(IcSet(IcDefineVar(entered, s.var, TRUE).levels, s.var, indVar.i).levels,
                     s, st)

\* The caseStmtItems and the default item, walked in order
CaseArms(lv, arms, i, steps) ==
    IF i > Len(arms) THEN Res(lv, <<>>, {}, steps, FALSE, <<>>)
    ELSE LET label == IF arms[i].label.k = "none" THEN <<"default">>
                      ELSE ExprText(lv, arms[i].label)
             body == ElabStmt(lv, arms[i].body, steps)
             rest == IF body.fatal THEN Res(body.levels, <<>>, {}, body.steps, TRUE, <<>>)
                     ELSE CaseArms(body.levels, arms, i + 1, body.steps)
         IN  Res(rest.levels, <<label \o <<": ">> \o body.text \o <<" ">>>> \o rest.text,
                 body.errs \cup rest.errs, rest.steps, rest.fatal, body.log \o rest.log)

\* enterCaseStmt, the items, exitCaseStmt
CaseStmt(lv, s, steps) ==
    LET entered == IcEnterPoisoning(lv)
        sel == ExprValue(entered, s.sel)
        items == CaseItems(s)
        taken == TakenArm(entered, sel, items, 1)
        walked == CaseArms(entered, items, 1, steps)
        text == CaseText(ExprText(entered, s.sel), walked.text, taken)
    IN  Res(IcExit(walked.levels), text, walked.errs, walked.steps, walked.fatal,
            walked.log \o <<[k |-> "case", sel |-> sel, taken |-> taken, text |-> text,
                             armTexts |-> walked.text]>>)

\* enterBeginEndBlock, the statements, exitBeginEndBlock
BeginEndBlock(lv, s, steps) ==
    LET walked == ElabStmts(IcEnterMutable(lv), s.body, 1, steps)
    IN  Res(IcExit(walked.levels), <<"begin ">> \o walked.text \o <<" end">>, walked.errs,
            walked.steps, walked.fatal, walked.log)

ElabStmts(lv, ss, i, steps) ==
    IF i > Len(ss) THEN Res(lv, <<>>, {}, steps, FALSE, <<>>)
    ELSE LET first == ElabStmt(lv, ss[i], steps)
             rest == IF first.fatal THEN Res(first.levels, <<>>, {}, first.steps, TRUE, <<>>)
                     ELSE ElabStmts(first.levels, ss, i + 1, first.steps)
         IN  Res(rest.levels, first.text \o rest.text, first.errs \cup rest.errs, rest.steps,
                 rest.fatal, first.log \o rest.log)

ElabStmt(lv, s, steps) ==
    CASE s.k = "decl" -> VarBinding(lv, s, steps)
      [] s.k = "assign" -> VarAssign(lv, s, steps)
      [] s.k = "if" -> IfStmt(lv, s, steps)
      [] s.k = "for" -> ForStmt(lv, s, steps)
      [] s.k = "case" -> CaseStmt(lv, s, steps)
      [] OTHER -> BeginEndBlock(lv, s, steps)

\* The body walked: Integer i = 1; and then statements of these
StmtPool ==
    {AssignS("y", VarE("i")),
     AssignS("i", LitE(2)),
     IfS(VarE("True"), AssignS("a", LitE(1)), AssignS("b", LitE(2))),
     IfS(VarE("False"), AssignS("a", LitE(1)), AssignS("b", LitE(2))),
     IfS(VarE("False"), AssignS("a", LitE(1)), NoStmt),
     IfS(VarE("c"), AssignS("i", LitE(2)), NoStmt),
     IfS(BinE("<", VarE("i"), LitE(2)), AssignS("i", BinE("+", VarE("i"), LitE(1))), NoStmt),
     ForS("j", LitE(0), BinE("<", VarE("j"), LitE(2)), "j", BinE("+", VarE("j"), LitE(1)),
          AssignS("y", VarE("j"))),
     ForS("j", LitE(0), BinE("<", VarE("j"), LitE(2)), "j", VarE("j"), AssignS("y", VarE("j"))),
     ForS("j", LitE(0), BinE("<", VarE("j"), VarE("i")), "j", BinE("+", VarE("j"), LitE(1)),
          IfS(BinE("<", VarE("j"), LitE(1)), AssignS("a", VarE("j")), AssignS("b", VarE("j")))),
     ForS("j", LitE(0), BinE("<", VarE("j"), LitE(3)), "j", BinE("+", VarE("j"), LitE(1)),
          AssignS("j", BinE("+", VarE("j"), LitE(1)))),
     ForS("j", LitE(0), BinE("<", VarE("j"), LitE(2)), "j", BinE("+", VarE("j"), LitE(1)),
          IfS(VarE("c"), AssignS("j", LitE(5)), NoStmt)),
     ForS("j", LitE(0), BinE("<", VarE("j"), LitE(2)), "k", BinE("+", VarE("j"), LitE(1)),
          AssignS("y", VarE("j"))),
     CaseS(VarE("i"), <<[label |-> LitE(1), body |-> AssignS("a", LitE(1))],
                        [label |-> LitE(2), body |-> AssignS("b", LitE(2))]>>,
           AssignS("d", LitE(3))),
     CaseS(VarE("c"), <<[label |-> LitE(1), body |-> AssignS("i", LitE(3))]>>,
           AssignS("d", LitE(3))),
     AssignS("y", CaseE(VarE("i"), <<[label |-> LitE(1), body |-> LitE(4)],
                                     [label |-> LitE(2), body |-> VarE("i")]>>, VarE("z"))),
     BlockS(<<DeclS("i", LitE(3)), AssignS("y", VarE("i"))>>),
     BlockS(<<DeclS("n", NoStmt), AssignS("y", VarE("n"))>>),
     BlockS(<<DeclS("m", VarE("c")), AssignS("y", VarE("m"))>>),
     BlockS(<<AssignS("g", LitE(2)), AssignS("y", VarE("g"))>>),
     IfS(VarE("c"), AssignS("i", LitE(2)), AssignS("y", VarE("i")))}

FirstStmt == DeclS("i", LitE(1))

Bodies == {<<FirstStmt>> \o b : b \in UNION {[1..n -> StmtPool] : n \in 0..MaxStmts - 1}}

StInitDefault ==
    /\ stScope = "function"
    /\ stBody = <<>>
    /\ stTodo = <<>>
    /\ stText = <<>>
    /\ stLog = <<>>
    /\ stErrs = {}
    /\ stSteps = 0
    /\ stPhase = "start"

StInit ==
    /\ stScope \in Scopes
    /\ stBody \in Bodies
    /\ stTodo = <<>>
    /\ stText = <<>>
    /\ stLog = <<>>
    /\ stErrs = {}
    /\ stSteps = 0
    /\ stPhase = "start"

\* The Elaborator enters the definition (enterFunctionDef, enterMethodDef,
\* enterRuleDef, enterBeginEndBlock, enterModuleDef)
enterDef ==
    /\ stPhase = "start"
    /\ stPhase' = "walking"
    /\ levels' = ScopeLevels(stScope)
    /\ stTodo' = stBody
    /\ UNCHANGED <<stScope, stBody, stText, stLog, stErrs, stSteps, IcGhosts>>

\* The walk of the next statement of the body, to the exit of its rule
WalkHead(kind) ==
    /\ stPhase = "walking"
    /\ stTodo # <<>>
    /\ Head(stTodo).k = kind
    /\ \E r \in {ElabStmt(levels, Head(stTodo), stSteps)} :
          /\ levels' = r.levels
          /\ stText' = Append(stText, r.text)
          /\ stLog' = stLog \o r.log
          /\ stErrs' = stErrs \cup r.errs
          /\ stSteps' = r.steps
          /\ stPhase' = IF r.fatal THEN "fatal" ELSE "walking"
    /\ stTodo' = Tail(stTodo)
    /\ UNCHANGED <<stScope, stBody, IcGhosts>>

exitVarBinding == WalkHead("decl")

exitVarAssign == WalkHead("assign")

exitIfStmt == WalkHead("if")

exitForStmt == WalkHead("for")

exitCaseStmt == WalkHead("case")

exitBeginEndBlock == WalkHead("block")

\* The definition is left (exitLevel)
exitDef ==
    /\ stPhase = "walking"
    /\ stTodo = <<>>
    /\ stPhase' = "done"
    /\ levels' = IcNew
    /\ UNCHANGED <<stScope, stBody, stTodo, stText, stLog, stErrs, stSteps, IcGhosts>>

(***************************************************************************)
(* minispec-combine (combine.cpp): RenameTable, LocalVars, RenameListener  *)
(***************************************************************************)

\* main() takes the files to combine from the command line.
MaxFiles == 3

\* Parse trees.  A file is a sequence of packageStmts.  Identifier texts are
\* sequences of pieces, so that a renamed identifier is the pieces of the
\* name followed by "___" and the pieces of the file name without ".ms".
CbVarBinding(v, uses) == [k |-> "varBinding", var |-> v, uses |-> uses]
CbLetBinding(v, uses) == [k |-> "letBinding", var |-> v, uses |-> uses]
CbVarExpr(n) == [k |-> "varExpr", var |-> n]
CbIfStmt(body) == [k |-> "ifStmt", body |-> body]
CbCaseStmt(body) == [k |-> "caseStmt", body |-> body]
CbBeginEndBlock(body) == [k |-> "beginEndBlock", body |-> body]
CbForStmt(v, body) == [k |-> "forStmt", var |-> v, body |-> body]
CbFunctionDef(n, param, arg, body) ==
    [k |-> "functionDef", var |-> n, param |-> param, arg |-> arg, body |-> body]
CbInputDef(n) == [k |-> "inputDef", var |-> n]
CbSubmoduleDecl(type, n) == [k |-> "submoduleDecl", type |-> type, var |-> n]
CbMethodDef(arg, body) == [k |-> "methodDef", arg |-> arg, body |-> body]
CbRuleDef(body) == [k |-> "ruleDef", body |-> body]
CbModuleDef(n, body) == [k |-> "moduleDef", var |-> n, body |-> body]

Identifiers == {"g", "h", "f", "M", "x", "m"}
NoName == ""

FileName(i) == <<"In", ToString(i), ".ms">>

\* replace(s, sub, "") of strutils.cpp:44-53, on pieces: every occurrence of
\* sub is removed.
ReplaceWithEmpty(s, sub) == SelectSeq(s, LAMBDA p : p # sub)

\* The names a packageStmt defines (combine.cpp:106-140).
DefinedNames(stmt) ==
    IF stmt.k \in {"functionDef", "moduleDef", "varBinding", "letBinding"}
    THEN <<stmt.var>>
    ELSE <<>>

\* One definition of name in file fileName (combine.cpp:142-155).
AddDefinition(table, name, fileName) ==
    IF table[name] = <<>>
    THEN [table EXCEPT ![name] = <<[name |-> <<name>>, file |-> fileName]>>]
    ELSE LET rq == table[name]
             prev == rq[Len(rq)]
             suffix == ReplaceWithEmpty(<<"___">> \o prev.file, ".ms")
         IN  IF prev.file # fileName
             THEN [table EXCEPT ![name] =
                      Append([rq EXCEPT ![Len(rq)] =
                                 [name |-> <<name>> \o suffix, file |-> prev.file]],
                             [name |-> <<name>>, file |-> fileName])]
             ELSE table

RECURSIVE AddDefinitions(_, _, _)
AddDefinitions(table, names, fileName) ==
    IF names = <<>> THEN table
    ELSE AddDefinitions(AddDefinition(table, Head(names), fileName),
                        Tail(names), fileName)

RECURSIVE AddStmts(_, _, _)
AddStmts(table, stmts, fileName) ==
    IF stmts = <<>> THEN table
    ELSE AddStmts(AddDefinitions(table, DefinedNames(Head(stmts)), fileName),
                  Tail(stmts), fileName)

\* RenameTable::RenameTable (combine.cpp:104-159).
RECURSIVE RenameTableCtor(_, _)
RenameTableCtor(table, files) ==
    IF files = <<>> THEN table
    ELSE RenameTableCtor(AddStmts(table, Head(files).tree, Head(files).name),
                         Tail(files))

EmptyRenameTable == [n \in Identifiers |-> <<>>]

MutRtAdvance(table, fileName) ==
    [n \in Identifiers |->
        IF Len(table[n]) > 1 /\ table[n][1].file = fileName
        THEN Tail(table[n])
        ELSE table[n]]

\* RenameTable::advance (combine.cpp:161-173).
RtAdvance(table, fileName) ==
    [n \in Identifiers |->
        IF Len(table[n]) > 1 /\ table[n][2].file = fileName
        THEN Tail(table[n])
        ELSE table[n]]

\* RenameTable::rename (combine.cpp:175-179).
RtRename(table, name) ==
    IF name \notin DOMAIN table \/ table[name] = <<>>
    THEN <<name>>
    ELSE table[name][1].name

\* LocalVars (combine.cpp:182-196).
LvEnterLevel(lv) == Append(lv, {})
LvExitLevel(lv) == SubSeq(lv, 1, Len(lv) - 1)
LvDefine(lv, var) ==
    IF lv # <<>> /\ var # NoName
    THEN [lv EXCEPT ![Len(lv)] = @ \cup {var}]
    ELSE lv
LvIsDefined(lv, name) == \E i \in DOMAIN lv : name \in lv[i]

\* The walk keeps the listener's lv and names; an identifier occurrence is
\* named by the place of its node and its slot in the node (0: the node's own
\* name, -1: its type, j >= 1: the j-th variable expression).
WalkState(lv, names) == [lv |-> lv, names |-> names]

\* enterLowerCaseIdentifier / enterUpperCaseIdentifier for a renameable
\* occurrence (combine.cpp:302-342).
RenameIdentifier(st, table, name, id) ==
    IF ~LvIsDefined(st.lv, name) /\ RtRename(table, name) # <<name>>
    THEN [st EXCEPT !.names = @ \cup {<<id, RtRename(table, name)>>}]
    ELSE st

RECURSIVE RenameUses(_, _, _, _, _)
RenameUses(st, table, uses, at, j) ==
    IF j > Len(uses) THEN st
    ELSE RenameUses(RenameIdentifier(st, table, uses[j], <<at, j>>),
                    table, uses, at, j + 1)

Define(st, var) == [st EXCEPT !.lv = LvDefine(@, var)]
EnterLevel(st) == [st EXCEPT !.lv = LvEnterLevel(@)]
ExitLevel(st) == [st EXCEPT !.lv = LvExitLevel(@)]

IsPrewalked(stmt) == stmt.k \notin {"methodDef", "ruleDef"}

MutModulePrewalk(stmt) == FALSE

ModulePrewalk(stmt) == IsPrewalked(stmt)

RECURSIVE WalkNode(_, _, _, _)
RECURSIVE WalkNodes(_, _, _, _, _, _)

\* ParseTreeWalker::DEFAULT.walk with the RenameListener: the enter
\* handler, the children in source order, the exit handler.
WalkNode(st, table, node, at) ==
    CASE node.k \in {"varBinding", "letBinding"} ->
            \* enterVarBinding / enterLetBinding define the variable first
            LET s1 == Define(st, node.var)
                s2 == RenameIdentifier(s1, table, node.var, <<at, 0>>)
            IN  RenameUses(s2, table, node.uses, at, 1)
      [] node.k = "varExpr" ->
            RenameIdentifier(st, table, node.var, <<at, 1>>)
      [] node.k \in {"ifStmt", "caseStmt", "beginEndBlock", "ruleDef"} ->
            ExitLevel(WalkNodes(EnterLevel(st), table, node.body, at, 1, FALSE))
      [] node.k = "forStmt" ->
            ExitLevel(WalkNodes(Define(EnterLevel(st), node.var), table,
                                node.body, at, 1, FALSE))
      [] node.k = "methodDef" ->
            ExitLevel(WalkNodes(Define(EnterLevel(st), node.arg), table,
                                node.body, at, 1, FALSE))
      [] node.k = "functionDef" ->
            \* enterFunctionDef walks the paramFormals first
            LET s1 == Define(EnterLevel(st), node.param)
                s2 == RenameIdentifier(s1, table, node.var, <<at, 0>>)
                s3 == Define(s2, node.arg)
            IN  ExitLevel(WalkNodes(s3, table, node.body, at, 1, FALSE))
      [] node.k = "inputDef" ->
            Define(st, node.var)
      [] node.k = "submoduleDecl" ->
            RenameIdentifier(Define(st, node.var), table, node.type, <<at, -1>>)
      [] node.k = "moduleDef" ->
            \* enterModuleDef walks inputs, submodules and stmts first
            LET s1 == WalkNodes(EnterLevel(st), table, node.body, at, 1, TRUE)
                s2 == RenameIdentifier(s1, table, node.var, <<at, 0>>)
            IN  ExitLevel(WalkNodes(s2, table, node.body, at, 1, FALSE))

WalkNodes(st, table, nodes, at, i, prewalk) ==
    IF i > Len(nodes) THEN st
    ELSE LET next == IF prewalk /\ ~ModulePrewalk(nodes[i])
                     THEN st
                     ELSE WalkNode(st, table, nodes[i], Append(at, i))
         IN  WalkNodes(next, table, nodes, at, i + 1, prewalk)

\* The identifier occurrences of a node in source order, each with the
\* names that are local at that place by the scoping of the language
\* (nothing is local at the top level of a file):
\* formals for the whole definition, a binding from its declaration to the
\* end of the enclosing block, and a module's inputs, submodules and
\* variables also in all of its methods and rules.
Occurrence(id, name, renameable, scope) ==
    [id |-> id, name |-> name, renameable |-> renameable,
     local |-> name \in scope]

RECURSIVE NodeOccurrences(_, _, _, _)
RECURSIVE BodyOccurrences(_, _, _, _, _)
RECURSIVE ModuleLocals(_, _)

NodeBinds(node) ==
    IF node.k \in {"varBinding", "letBinding", "inputDef", "submoduleDecl"}
    THEN {node.var}
    ELSE {}

ModuleLocals(nodes, i) ==
    IF i > Len(nodes) THEN {}
    ELSE NodeBinds(nodes[i]) \cup ModuleLocals(nodes, i + 1)

NodeOccurrences(node, at, scope, own) ==
    CASE node.k \in {"varBinding", "letBinding"} ->
            <<Occurrence(<<at, 0>>, node.var, TRUE, scope \cup own)>>
            \o [j \in DOMAIN node.uses |->
                   Occurrence(<<at, j>>, node.uses[j], TRUE, scope \cup own)]
      [] node.k = "varExpr" ->
            <<Occurrence(<<at, 1>>, node.var, TRUE, scope)>>
      [] node.k \in {"ifStmt", "caseStmt", "beginEndBlock", "ruleDef"} ->
            BodyOccurrences(node.body, at, 1, FALSE, scope)
      [] node.k = "forStmt" ->
            <<Occurrence(<<at, 0>>, node.var, FALSE, scope \cup {node.var})>>
            \o BodyOccurrences(node.body, at, 1, FALSE, scope \cup {node.var})
      [] node.k = "methodDef" ->
            BodyOccurrences(node.body, at, 1, FALSE, scope \cup ({node.arg} \ {NoName}))
      [] node.k = "functionDef" ->
            <<Occurrence(<<at, 0>>, node.var, TRUE,
                         scope \cup ({node.param} \ {NoName}))>>
            \o BodyOccurrences(node.body, at, 1, FALSE,
                               scope \cup ({node.param, node.arg} \ {NoName}))
      [] node.k = "inputDef" ->
            <<Occurrence(<<at, 0>>, node.var, FALSE, scope \cup {node.var})>>
      [] node.k = "submoduleDecl" ->
            <<Occurrence(<<at, -1>>, node.type, TRUE, scope),
              Occurrence(<<at, 0>>, node.var, FALSE, scope \cup {node.var})>>
      [] node.k = "moduleDef" ->
            <<Occurrence(<<at, 0>>, node.var, TRUE, scope)>>
            \o BodyOccurrences(node.body, at, 1, FALSE, scope)

BodyOccurrences(nodes, at, i, top, scope) ==
    IF i > Len(nodes) THEN <<>>
    ELSE LET own == IF top THEN {} ELSE NodeBinds(nodes[i])
             inner == IF nodes[i].k \in {"methodDef", "ruleDef"}
                      THEN scope \cup ModuleLocals(nodes, 1)
                      ELSE scope
         IN  NodeOccurrences(nodes[i], Append(at, i), inner, own)
             \o BodyOccurrences(nodes, at, i + 1, top, scope \cup own)

\* RenameListener::emit (combine.cpp:344-371) prints every token of the
\* file in source order, an identifier with an entry in names by that entry.
EmitOccurrence(names, file, occ) ==
    [file |-> file, id |-> occ.id, name |-> occ.name,
     text |-> IF \E e \in names : e[1] = occ.id
              THEN (CHOOSE e \in names : e[1] = occ.id)[2]
              ELSE <<occ.name>>]

EmitTree(names, file, tree) ==
    LET occs == BodyOccurrences(tree, <<file>>, 1, TRUE, {})
    IN  [j \in DOMAIN occs |-> EmitOccurrence(names, file, occs[j])]

FileMarker(file, fileName) ==
    [file |-> file, id |-> <<>>, name |-> NoName,
     text |-> <<"// File ">> \o fileName \o <<"\n">>]

\* The input files.
CbFiles ==
    { \* Integer g = 1;
      <<CbVarBinding("g", <<>>)>>,
      \* Integer h = g + 1;
      <<CbVarBinding("h", <<"g">>)>>,
      \* function f(g) = g + h;  Integer g = h;  Integer g = g;
      <<CbFunctionDef("f", NoName, "g", <<CbVarExpr("g"), CbVarExpr("h")>>),
        CbVarBinding("g", <<"h">>), CbLetBinding("g", <<"g">>)>>,
      \* function h#(Integer f)(x): if (..) begin let g = h; g end; g;
      \*                            for (h ..) h; h; f
      \* Integer x = g;
      <<CbFunctionDef("h", "f", "x",
           <<CbIfStmt(<<CbLetBinding("g", <<"h">>), CbVarExpr("g")>>),
             CbVarExpr("g"),
             CbForStmt("h", <<CbVarExpr("h")>>),
             CbVarExpr("h"), CbVarExpr("f")>>),
        CbVarBinding("x", <<"g">>)>>,
      \* module M: method uses g, h, f; input g; Integer h = f; M f;
      \*           rule with a begin/end block and a case
      <<CbModuleDef("M",
           <<CbMethodDef("x", <<CbVarExpr("g"), CbVarExpr("h"), CbVarExpr("f")>>),
             CbInputDef("g"),
             CbVarBinding("h", <<"f">>),
             CbSubmoduleDecl("M", "f"),
             CbRuleDef(<<CbBeginEndBlock(<<CbVarBinding("x", <<"g">>)>>),
                         CbCaseStmt(<<CbVarExpr("f")>>)>>)>>),
        CbVarBinding("f", <<"g", "M">>)>>,
      \* Integer f = g;  module M: submodule M m; method uses h
      <<CbVarBinding("f", <<"g">>),
        CbModuleDef("M", <<CbSubmoduleDecl("M", "m"),
                           CbMethodDef(NoName, <<CbVarExpr("h")>>)>>)>> }

CbInitDefault ==
    /\ cbArgv = <<>>
    /\ cbTable = EmptyRenameTable
    /\ cbFile = 0
    /\ cbStmt = 0
    /\ cbLv = <<>>
    /\ cbNames = {}
    /\ cbOut = <<>>
    /\ cbPhase = "start"

\* main parses every file named on the command line (combine.cpp:380-383).
CbInit ==
    /\ \E n \in 0..MaxFiles :
          \E trees \in [1..n -> CbFiles] :
             cbArgv = [i \in 1..n |-> [name |-> FileName(i), tree |-> trees[i]]]
    /\ cbTable = EmptyRenameTable
    /\ cbFile = 0
    /\ cbStmt = 0
    /\ cbLv = <<>>
    /\ cbNames = {}
    /\ cbOut = <<>>
    /\ cbPhase = "start"

\* main without files (combine.cpp:375-378).
needFiles ==
    /\ cbPhase = "start"
    /\ Len(cbArgv) < 1
    /\ cbPhase' = "exited"
    /\ UNCHANGED <<cbArgv, cbTable, cbFile, cbStmt, cbLv, cbNames, cbOut>>

\* RenameTable renameTable(parseTrees) (combine.cpp:385).
newRenameTable ==
    /\ cbPhase = "start"
    /\ Len(cbArgv) >= 1
    /\ cbTable' = RenameTableCtor(EmptyRenameTable, cbArgv)
    /\ cbFile' = 1
    /\ cbPhase' = "advance"
    /\ UNCHANGED <<cbArgv, cbStmt, cbLv, cbNames, cbOut>>

\* The last file is skipped and main returns (combine.cpp:388, 398).
skipLastFile ==
    /\ cbPhase = "advance"
    /\ cbFile = Len(cbArgv)
    /\ cbPhase' = "done"
    /\ UNCHANGED <<cbArgv, cbTable, cbFile, cbStmt, cbLv, cbNames, cbOut>>

\* renameTable.advance(parseTree) (combine.cpp:390).
advance ==
    /\ cbPhase = "advance"
    /\ cbFile < Len(cbArgv)
    /\ cbTable' = RtAdvance(cbTable, cbArgv[cbFile].name)
    /\ cbStmt' = 1
    /\ cbPhase' = "walk"
    /\ UNCHANGED <<cbArgv, cbFile, cbLv, cbNames, cbOut>>

\* The walk of the file with the listener (combine.cpp:391), one
\* packageStmt at a time.
walkPackageStmt ==
    /\ cbPhase = "walk"
    /\ cbStmt <= Len(cbArgv[cbFile].tree)
    /\ \E st \in {WalkNode(WalkState(cbLv, cbNames), cbTable,
                           cbArgv[cbFile].tree[cbStmt], <<cbFile, cbStmt>>)} :
          /\ cbLv' = st.lv
          /\ cbNames' = st.names
    /\ cbStmt' = cbStmt + 1
    /\ UNCHANGED <<cbArgv, cbTable, cbFile, cbOut, cbPhase>>

\* The file marker and renameListener.emit(parseTree) (combine.cpp:393-395).
emitFile ==
    /\ cbPhase = "walk"
    /\ cbStmt > Len(cbArgv[cbFile].tree)
    /\ cbOut' = cbOut \o <<FileMarker(cbFile, cbArgv[cbFile].name)>>
                      \o EmitTree(cbNames, cbFile, cbArgv[cbFile].tree)
    /\ cbFile' = cbFile + 1
    /\ cbStmt' = 0
    /\ cbPhase' = "advance"
    /\ UNCHANGED <<cbArgv, cbTable, cbLv, cbNames>>

(***************************************************************************)
(* msc (msc.cpp): reportBluespecOutput for the events of a bsc run         *)
(***************************************************************************)

\* The number of events in the output of one bsc run.
MaxEvents == 2

\* strutils.cpp:24-39.  The escape character is written ESC.
errorColorCode == "ESC[1;31m"
warnColorCode == "ESC[1;35m"
hlColorCode == "ESC[1;37m"
clearCode == "ESC[0m"
colorize(colorCode, str) == <<colorCode>> \o str \o <<clearCode>>
errorColored(str) == colorize(errorColorCode, str)
warnColored(str) == colorize(warnColorCode, str)
hlColored(str) == colorize(hlColorCode, str)

\* The pieces of an event's text.
lineTerm == " _@%@_ "
CommandLine == "Command line:"
\* The backquote of bsc is written ^.
UnboundMk == "Unbound variable ^mk"
LocTranslated == "\"Translated.bsv\", line 3, column 5"
LocImported == "\"Prelude.bsv\", line 7, column 1"
Locs == {LocTranslated, LocImported}
HdrCode == ": (T0004)"

\* std::string::npos, the largest value of size_t.
Npos == 2 ^ 30 + (2 ^ 30 - 1)

\* std::string::find: the position of the first occurrence (0 for a text
\* that starts with sub), npos when there is none.
Find(msg, sub) ==
    IF \E i \in DOMAIN msg : msg[i] = sub
    THEN (CHOOSE i \in DOMAIN msg : msg[i] = sub /\ \A j \in 1..i - 1 : msg[j] # sub) - 1
    ELSE Npos

\* The value of an integer used as a condition.
Truthy(n) == n # 0

\* std::regex_search(msg, hdrMatch, hdrRegex) (msc.cpp:40, 89): a location
\* followed by ": (CODE)".
HdrMatch(msg) ==
    IF \E i \in 1..Len(msg) - 1 : msg[i] \in Locs /\ msg[i + 1] = HdrCode
    THEN CHOOSE i \in 1..Len(msg) - 1 :
            /\ msg[i] \in Locs /\ msg[i + 1] = HdrCode
            /\ \A j \in 1..i - 1 : ~(msg[j] \in Locs /\ msg[j + 1] = HdrCode)
    ELSE 0

\* translateLoc (msc.cpp:42-46) for the location of LocTranslated.
TranslateLoc(mapped) ==
    IF mapped THEN "In1.ms:2:1" ELSE "(translated bsv:3:5)"

\* translateAllLocs (msc.cpp:48-62).
TranslateAllLocs(msg, mapped) ==
    LET One(p) == IF p = LocTranslated THEN hlColored(<<TranslateLoc(mapped)>>)
                  ELSE IF p = LocImported THEN hlColored(<<"Prelude.bsv:7:1">>)
                  ELSE <<p>>
        F[i \in 0..Len(msg)] == IF i = 0 THEN <<>> ELSE F[i - 1] \o One(msg[i])
    IN  F[Len(msg)]

ReplaceAll(msg, sub, repl) ==
    [i \in DOMAIN msg |-> IF msg[i] = sub THEN repl ELSE msg[i]]

\* reportUnknownMsg (msc.cpp:78-83).
UnknownMsg(isError, msg, mapped) ==
    (IF isError THEN errorColored(<<"error:">>) ELSE warnColored(<<"warning:">>))
    \o <<" ">> \o TranslateAllLocs(ReplaceAll(msg, lineTerm, "\n"), mapped)
    \o <<"\n">>

\* msc.cpp:92-94.
NotFoundMsg(topLevel) ==
    LET isModule == topLevel \in {"Foo"}
    IN  errorColored(<<"error:">>) \o <<" cannot find top-level ">>
        \o <<IF isModule THEN "module" ELSE "function">> \o <<" ">>
        \o errorColored(<<"'", topLevel, "'">>)

\* The condition of msc.cpp:91.
IsTopLevelNotFound(msg) ==
    Find(msg, CommandLine) >= 0 /\ Truthy(Find(msg, UnboundMk))

\* One turn of the loop over the events (msc.cpp:85-186).  For an event
\* with a header in Translated.bsv the message keeps the body as bsc wrote
\* it; the rewriting of the body by code (msc.cpp:108-180) is left out.
EventReport(ev, topLevel, mapped) ==
    LET h == HdrMatch(ev.msg)
    IN  IF h = 0
        THEN IF IsTopLevelNotFound(ev.msg)
             THEN [isError |-> ev.isError, text |-> NotFoundMsg(topLevel)]
             ELSE [isError |-> ev.isError,
                   text |-> UnknownMsg(ev.isError, ev.msg, mapped)]
        ELSE IF ev.msg[h] # LocTranslated
        THEN [isError |-> ev.isError,
              text |-> UnknownMsg(ev.isError,
                                  <<"in imported BSV file ">> \o ev.msg, mapped)]
        ELSE [isError |-> ev.isError,
              text |-> hlColored(<<TranslateLoc(mapped), ":">>) \o <<" ">>
                       \o (IF ev.isError THEN errorColored(<<"error:">>)
                           ELSE warnColored(<<"warning:">>))
                       \o <<" ">>
                       \o TranslateAllLocs(SubSeq(ev.msg, h + 2, Len(ev.msg)), mapped)
                       \o <<"\n">>]

\* The texts of the events of bsc.
BscMessages ==
    { <<CommandLine, " (S0000)", lineTerm, UnboundMk, "Foo'">>,
      <<UnboundMk, "Foo'">>,
      <<UnboundMk, "Foo'", lineTerm, CommandLine>>,
      <<CommandLine, " unrecognized flag">>,
      <<"Unknown position: (S0015) cannot open file">>,
      <<"During elaboration at ", LocTranslated, lineTerm, "it failed">>,
      <<"See also ", LocImported>>,
      <<LocTranslated, HdrCode, lineTerm, "unbound variable ^x'">>,
      <<LocImported, HdrCode, lineTerm, "some problem">> }

BscEvents == [isError : BOOLEAN, msg : BscMessages]

MscInitDefault ==
    /\ mscEvents = <<>>
    /\ mscTopLevel = ""
    /\ mscMapped = FALSE
    /\ mscNext = 1
    /\ mscReports = <<>>

\* The output of bsc, the top-level name given to msc, and whether the
\* SourceMap finds the translated location.
MscInit ==
    /\ mscEvents \in UNION {[1..n -> BscEvents] : n \in 0..MaxEvents}
    /\ mscTopLevel \in {"Foo", "foo", ""}
    /\ mscMapped \in BOOLEAN
    /\ mscNext = 1
    /\ mscReports = <<>>

\* reportBluespecOutput, one event (msc.cpp:85-186).
reportBluespecOutput ==
    /\ mscNext <= Len(mscEvents)
    /\ mscReports' = Append(mscReports,
                            EventReport(mscEvents[mscNext], mscTopLevel, mscMapped))
    /\ mscNext' = mscNext + 1
    /\ UNCHANGED <<mscEvents, mscTopLevel, mscMapped>>

(***************************************************************************)
(* The TranslatedCode values the Elaborator stores on nodes                *)
(* (translate.cpp:824-848, 887-979, 1073-1111, 1139-1321, 1390-1398)       *)
(***************************************************************************)

\* The handler calls of a run
MaxHandlers == 2

\* The iterations of an unrolled for loop
MaxIterations == 2

\* A TranslatedCodePtr with the object it points to
TcV(tc) == [t |-> "translated", tc |-> tc]

\* emitStart and emitEnd on the object an expression denotes, the expression
\* evaluated once
EmitStart(tc, ctx) == CHOOSE r \in {TcEmitStart(v, ctx) : v \in {tc}} : TRUE

EmitEnd(tc, ctxInfo) == CHOOSE r \in {TcEmitEnd(v, ctxInfo) : v \in {tc}} : TRUE

UseF1 == [name |-> "f", params |-> <<IntParam(1)>>, escape |-> TRUE]

UseF2 == [name |-> "f", params |-> <<IntParam(2)>>, escape |-> TRUE]

\* The parametric uses emit records when it prints a node with this value
UsesIn(value) ==
    CASE value.t = "pu" -> {value.pu}
      [] value.t = "translated" ->
            {value.tc.parametricUsesEmitted[k].pu :
                k \in DOMAIN value.tc.parametricUsesEmitted}
      [] OTHER -> {}

\* A child of the node a handler is called on: a leaf, or a node that has
\* been given a value and has no parent yet (idx is its place in elabValues);
\* printed are the uses that lie in no non-taken branch below it
Leaf(v) == [idx |-> 0, v |-> v, printed |-> UsesIn(v), dropped |-> {}]

\* The children explored that are leaves: the parametric use f#(1), and in an
\* else branch the parametric use f#(2), an Integer literal, or no branch
Leaves == {Leaf(PuV(UseF1))}

ElseLeaf == Leaf(PuV(UseF2))

\* No else branch
NoChild == [idx |-> 0, v |-> NullV, printed |-> {}, dropped |-> {}]

Children ==
    Leaves
        \cup {[idx |-> k, v |-> elabValues[k].value, printed |-> elabValues[k].printed,
               dropped |-> elabValues[k].dropped] :
                 k \in {j \in DOMAIN elabValues : elabValues[j].role = "root"}}

\* emit(tree::ParseTree*) of a node that has this value
EmitNode(tc, value) ==
    CHOOSE r \in {TcEmit(v, "expr", [n \in TcNodes |-> IF n = "expr" THEN value ELSE NullV],
                         IF value.t = "translated" THEN value.tc
                         ELSE NewTranslatedCode(FALSE)) : v \in {tc}} : TRUE

\* emit(tree::ParseTree*) of a terminal
EmitToken(tc, ctx, text) == EmitEnd(TcEmitText(EmitStart(tc, ctx), text), "")

\* The arguments of the variadic emit: a string, a terminal, a node with a
\* value, and a node without value that prints its children (a child with a
\* value between its tokens)
Txt(text) == [k |-> "text", text |-> text]

Tok(ctx, text) == [k |-> "token", ctx |-> ctx, text |-> text]

Node(v) == [k |-> "node", v |-> v]

Tree(ctx, head, v, tail) == [k |-> "tree", ctx |-> ctx, head |-> head, v |-> v, tail |-> tail]

\* template emit(args...): no space between a string and a tree, one space
\* between two trees; nothing is emitted once an assert has ended the process
RECURSIVE EmitArgs(_, _, _)
EmitArg(tc, a) ==
    CASE a.k = "text" -> TcEmitText(tc, a.text)
      [] a.k = "token" -> EmitToken(tc, a.ctx, a.text)
      [] a.k = "node" -> EmitNode(tc, a.v)
      [] OTHER -> EmitEnd(TcEmitText(EmitNode(TcEmitText(EmitStart(tc, a.ctx), a.head), a.v),
                                     a.tail), "")

EmitArgs(tc, args, i) ==
    CHOOSE r \in
        {IF v.failed \/ i > Len(args) THEN v
         ELSE EmitArgs(IF /\ args[i].k # "text"
                          /\ i < Len(args)
                          /\ args[i + 1].k # "text"
                       THEN TcEmitText(EmitArg(v, args[i]), " ")
                       ELSE EmitArg(v, args[i]), args, i + 1) : v \in {tc}} : TRUE

EmitLine(tc, args) == TcEmitText(EmitArgs(tc, args, 1), "\n")

\* createTranslatedCodePtr()
CreateTranslatedCode == NewTranslatedCode(FALSE)

\* exitIfStmt with a Bool condition
MutIfStmtCode(cond, hasElse, thenV, elseV) ==
    LET started == TcEmitText(EmitStart(CreateTranslatedCode, "ifStmt"),
                              IfComment(cond, hasElse))
        then == EmitArgs(started, <<Txt("begin "), Node(thenV), Txt(" end")>>, 1)
    IN  EmitEnd(IF hasElse
                  THEN EmitArgs(then, <<Txt("begin "), Node(elseV), Txt(" end")>>, 1)
                  ELSE then, "")

IfStmtCode(cond, hasElse, thenV, elseV) ==
    LET started == TcEmitText(EmitStart(CreateTranslatedCode, "ifStmt"),
                              IfComment(cond, hasElse))
        branch == IF cond THEN EmitArgs(started, <<Txt("begin "), Node(thenV), Txt(" end")>>, 1)
                  ELSE IF hasElse
                  THEN EmitArgs(started, <<Txt("begin "), Node(elseV), Txt(" end")>>, 1)
                  ELSE started
    IN  EmitEnd(branch, "")

\* The emitEnd that closes the block of an iteration
MutForBlockEnd(tc, info) == tc

ForBlockEnd(tc, info) == EmitEnd(tc, info)

\* The iterations of exitForStmt, the body walked anew in each
RECURSIVE ForBlocks(_, _, _, _)
ForBlocks(tc, bodyV, n, i) ==
    CHOOSE r \in
        {IF v.failed \/ i > n THEN v
         ELSE LET started == EmitStart(v, "stmt")
                  block == EmitLine(started, <<Txt("begin "), Node(bodyV), Txt(" end")>>)
              IN  ForBlocks(ForBlockEnd(block, IterationInfo(IndVar, i - 1, i)),
                            bodyV, n, i + 1) : v \in {tc}} : TRUE

\* exitForStmt from createTranslatedCodePtr on: the object when the handler
\* returns, after n iterations, on a False condition (done) or on a condition
\* or an update that did not elaborate (error)
ForStmtCode(bodyV, n, end) ==
    LET started == TcEmitText(EmitStart(CreateTranslatedCode, "forStmt"), "/* for loop */")
        blocks == ForBlocks(started, bodyV, n, 1)
    IN  IF end = "done" THEN EmitEnd(blocks, "") ELSE blocks

\* exitCondExpr with a Bool predicate: the value of the taken expression when
\* it is an Integer or a Bool, the taken expression in parentheses otherwise
CondExprValue(pred, thenV, elseV) ==
    LET takenV == IF pred THEN thenV ELSE elseV
    IN  IF takenV.t \in {"int", "bool"} THEN takenV
        ELSE TcV(EmitEnd(EmitArgs(EmitStart(CreateTranslatedCode, "condExpr"),
                                    <<Txt("("), Node(takenV), Txt(")")>>, 1), ""))

\* exitCaseExprItem
CaseExprItemCode(bodyV) ==
    EmitEnd(EmitArgs(EmitStart(CreateTranslatedCode, "body"),
                       <<Txt("("), Node(bodyV), Txt(")")>>, 1), "")

\* exitVarAssign with a memberLvalue base.f whose base is in submoduleNames
MemberAssignCode(base, exprV) ==
    LET lvalue == EmitEnd(EmitArgs(EmitStart(EmitStart(CreateTranslatedCode, "varAssign"),
                                                 "memberLvalue"),
                                     <<Tok("lvalue", base), Txt(".f___input")>>, 1), "")
    IN  EmitEnd(EmitArgs(lvalue, <<Txt("("), Node(exprV), Txt(");")>>, 1), "")

\* How a member assignment base.f = e; is printed: by its value when
\* exitVarAssign has given it one, by its children otherwise
MemberAssign(names, base, exprV) ==
    IF base \in names THEN Node(TcV(MemberAssignCode(base, exprV)))
    ELSE Tree("varAssign", base \o ".f = ", exprV, ";")

\* moduleStmts: a submoduleDecl (of a Vector type with well-formed or
\* ill-formed params, or of another type), an inputDef, and a stmt, a ruleDef
\* and a methodDef that hold the member assignment base.f = e;
SubmoduleDecl(name, vector) == [k |-> "submoduleDecl", name |-> name, vector |-> vector]

InputDef(name, defaultVal) == [k |-> "inputDef", name |-> name, defaultVal |-> defaultVal]

ModuleStmt(k, base, v) == [k |-> k, base |-> base, v |-> v]

\* enterModuleDef, the elaboration: submoduleNames when each moduleStmt is
\* walked (inputDefs, submoduleDecls and stmts first, in order; the rules and
\* methods after the argFormals have been included)
RECURSIVE NamesAt(_, _, _, _)
NamesAt(stmts, args, i, names) ==
    IF i > Len(stmts) THEN [last |-> names \cup args, at |-> <<>>]
    ELSE LET rest == NamesAt(stmts, args, i + 1,
                             IF stmts[i].k = "submoduleDecl" THEN names \cup {stmts[i].name}
                             ELSE names)
         IN  [rest EXCEPT !.at = <<IF stmts[i].k \in {"ruleDef", "methodDef"} THEN rest.last
                                   ELSE names>> \o @]

\* enterModuleDef, the interface
RECURSIVE InterfaceMethods(_, _, _)
InterfaceMethods(tc, stmts, i) ==
    CHOOSE r \in
        {IF v.failed \/ i > Len(stmts) THEN v
         ELSE LET s == stmts[i]
                  line == CASE s.k = "methodDef" ->
                                 EmitLine(v, <<Txt("  method "), Tok("type", "Bool"),
                                               Tok("name", "m"), Txt(""), Txt(";")>>)
                            [] s.k = "inputDef" ->
                                 EmitLine(v, <<Txt("  method Action "), Tok("name", s.name),
                                               Txt("___input("), Tok("type", "Bool"),
                                               Txt(" value);")>>)
                            [] OTHER -> v
              IN  InterfaceMethods(line, stmts, i + 1) : v \in {tc}} : TRUE

\* enterModuleDef, what each of the three loops over the moduleStmts emits
\* between its emitStart(stmt) and its emitEnd()
ModuleStmtLines(tc, s, names, pass) ==
    CASE pass = 1 /\ s.k = "inputDef" ->
            IF s.defaultVal
            THEN EmitLine(tc, <<Txt("  Wire#("), Tok("type", "Bool"), Txt(") "),
                                Tok("name", s.name), Txt(" <- mkDWire("),
                                Tok("defaultVal", "False"), Txt(");")>>)
            ELSE EmitLine(tc, <<Txt("  Wire#("), Tok("type", "Bool"), Txt(") "),
                                Tok("name", s.name), Txt(" <- mkBypassWire;")>>)
      [] pass = 1 /\ s.k = "submoduleDecl" ->
            CASE s.vector = "ok" ->
                    EmitLine(tc, <<Txt("  "), Tok("type", "Vector#(2, Reg)"),
                                   Tok("name", s.name), Txt(" <- replicateM("), Txt("mkReg"),
                                   Txt(""), Txt(");")>>)
              [] s.vector = "bad" -> tc
              [] OTHER ->
                    EmitLine(tc, <<Txt("  "), Tok("type", "Reg"), Tok("name", s.name),
                                   Txt(" <- "), Txt("mkReg"), Txt(";")>>)
      [] pass = 1 /\ s.k = "stmt" ->
            EmitLine(tc, <<Txt("  "), MemberAssign(names, s.base, s.v)>>)
      [] pass = 2 /\ s.k = "ruleDef" ->
            EmitLine(tc, <<Txt("  (* no_implicit_conditions, fire_when_enabled *) "),
                           Txt("rule r; "), MemberAssign(names, s.base, s.v),
                           Txt(" endrule")>>)
      [] pass = 3 /\ s.k = "methodDef" ->
            EmitLine(tc, <<Txt("  "), Txt("method Bool m; "),
                           MemberAssign(names, s.base, s.v), Txt(" endmethod")>>)
      [] pass = 3 /\ s.k = "inputDef" ->
            EmitLine(EmitLine(EmitLine(tc, <<Txt("  method Action "), Tok("name", s.name),
                                             Txt("___input("), Tok("type", "Bool"),
                                             Txt(" value);")>>),
                              <<Txt("    "), Tok("name", s.name), Txt(" <= value;")>>),
                     <<Txt("  endmethod")>>)
      [] OTHER -> tc

RECURSIVE ModulePass(_, _, _, _, _)
ModulePass(tc, stmts, names, pass, i) ==
    CHOOSE r \in
        {IF v.failed \/ i > Len(stmts) THEN v
         ELSE ModulePass(EmitEnd(ModuleStmtLines(EmitStart(v, stmts[i].k), stmts[i],
                                                 names[i], pass), ""),
                         stmts, names, pass, i + 1) : v \in {tc}} : TRUE

\* enterModuleDef, the emission of a module without paramFormals
ModuleDefCode(stmts, args) ==
    LET names == NamesAt(stmts, args, 1, {}).at
        started == EmitLine(EmitStart(CreateTranslatedCode, "moduleDef"),
                            <<Txt("interface "), Tok("moduleId", "M"), Txt(";")>>)
        interface == EmitEnd(EmitLine(InterfaceMethods(started, stmts, 1),
                                        <<Txt("endinterface\n")>>), "")
        header == EmitArgs(EmitStart(interface, "moduleDef"),
                           <<Txt("module mk"), Tok("moduleId", "M")>>, 1)
        formals == IF args = {} THEN header
                   ELSE EmitArgs(header, <<Txt("#"), Tok("argFormals", "(Reg a)")>>, 1)
        opened == EmitLine(formals, <<Txt("("), Tok("moduleId", "M"), Txt(");")>>)
        passes == ModulePass(ModulePass(ModulePass(opened, stmts, names, 1, 1),
                                        stmts, names, 2, 1), stmts, names, 3, 1)
    IN  EmitEnd(EmitLine(passes, <<Txt("endmodule\n")>>), "")

\* The uses the member assignments of the moduleStmts hold
ModuleUses(stmts) ==
    UNION {UsesIn(stmts[i].v) :
              i \in {j \in DOMAIN stmts : stmts[j].k \in {"stmt", "ruleDef", "methodDef"}}}

\* exitFunctionDef of the function that is the top-level parametric: the
\* synthesis wrapper
FunctionDefCode(bodyV, hasArgs) ==
    LET started == EmitStart(CreateTranslatedCode, "functionDef")
        def == TcEmitText(TcEmitText(EmitArgs(started, <<Tree("functionDef",
                                                             "function Bool f(Reg a) = ",
                                                             bodyV, ";")>>, 1), "\n"), "\n")
        ifc == EmitLine(EmitLine(EmitLine(EmitLine(def,
                   <<Txt("interface "), Txt("\\F___ "), Txt(" ;")>>),
                   <<Txt("  (* prefix=\"_\", result = \"out\" *)")>>),
                   <<Txt("  method "), Tok("type", "Bool"), Txt(" fn"),
                     Txt(IF hasArgs THEN "(Reg a)" ELSE ""), Txt(";")>>),
                   <<Txt("endinterface\n")>>)
        mod == EmitArgs(EmitLine(ifc, <<Txt("module "), Txt("\\mkf "), Txt(" ( "),
                                        Txt("\\F___ "), Txt(" );")>>),
                        <<Txt("  method "), Tok("type", "Bool"), Txt(" fn"),
                          Txt(IF hasArgs THEN "(Reg a)" ELSE ""), Txt(" = "), Txt("f"),
                          Txt(" (")>>, 1)
        actuals == IF hasArgs THEN EmitArgs(mod, <<Tok("argName", "a")>>, 1) ELSE mod
    IN  EmitEnd(EmitLine(EmitLine(actuals, <<Txt(");")>>), <<Txt("endmodule")>>), "")

\* exitBsvImportDecl
RECURSIVE ImportLines(_, _, _)
ImportLines(tc, ids, i) ==
    CHOOSE r \in
        {IF v.failed \/ i > Len(ids) THEN v
         ELSE ImportLines(EmitLine(v, <<Txt("import "), Tok("upperCaseIdentifier", ids[i]),
                                        Txt("::*;")>>), ids, i + 1) : v \in {tc}} : TRUE

BsvImportDeclCode(ids) ==
    EmitEnd(ImportLines(EmitStart(CreateTranslatedCode, "bsvImportDecl"), ids, 1), "")

\* The modules, base names and imported packages explored
Module(stmts, args) == [stmts |-> stmts, args |-> args]

Modules ==
    {Module(<<>>, {}),
     Module(<<SubmoduleDecl("x", "no"), ModuleStmt("ruleDef", "x", PuV(UseF1))>>, {}),
     Module(<<ModuleStmt("stmt", "x", PuV(UseF1)), SubmoduleDecl("x", "no")>>, {"a"}),
     Module(<<InputDef("d", TRUE), ModuleStmt("methodDef", "a", PuV(UseF2))>>, {"a"}),
     Module(<<InputDef("d", FALSE), SubmoduleDecl("v", "ok")>>, {}),
     Module(<<SubmoduleDecl("v", "bad"), ModuleStmt("stmt", "a", PuV(UseF2))>>, {"a"})}

BaseNames == {"x", "a"}

BsvImports == {<<"Vector">>, <<"Vector", "FIFO">>}

NoHandler == [handler |-> "none"]

ValInitDefault ==
    /\ elabValues = <<>>
    /\ submoduleNames = {}
    /\ outTc = NewTranslatedCode(FALSE)
    /\ valLast = NoHandler
    /\ valOps = 0

\* setValue(ctx, value) by a handler whose node has these children: the
\* children now have a parent
Stored(handler, value, children, printed, dropped) ==
    Append([k \in DOMAIN elabValues |->
               IF \E c \in children : c.idx = k /\ c # NoChild
               THEN [elabValues[k] EXCEPT !.role = "child"] ELSE elabValues[k]],
           [handler |-> handler, value |-> value, role |-> "root", printed |-> printed,
            dropped |-> dropped])

HandlerCall(last) ==
    /\ valOps < MaxHandlers
    /\ valOps' = valOps + 1
    /\ valLast' = last

\* exitIfStmt: a condition that is no Bool leaves the node without value
ifStmtValue(folded, cond, then, else) ==
    /\ HandlerCall([handler |-> "exitIfStmt", folded |-> folded, cond |-> cond,
                    then |-> then, else |-> else])
    /\ elabValues' =
          IF folded
          THEN Stored("exitIfStmt", TcV(IfStmtCode(cond, else # NoChild, then.v, else.v)),
                      {then, else},
                      IF cond THEN then.printed ELSE else.printed,
                      IF cond THEN then.dropped \cup UsesIn(else.v)
                      ELSE UsesIn(then.v) \cup else.dropped)
          ELSE elabValues
    /\ UNCHANGED <<submoduleNames, outTc>>

\* exitForStmt
forStmtValue(body, n, end) ==
    /\ HandlerCall([handler |-> "exitForStmt", body |-> body, n |-> n, end |-> end])
    /\ elabValues' =
          IF end = "done"
          THEN Stored("exitForStmt", TcV(ForStmtCode(body.v, n, end)), {body},
                      IF n = 0 THEN {} ELSE body.printed,
                      IF n = 0 THEN UsesIn(body.v) ELSE body.dropped)
          ELSE elabValues
    /\ UNCHANGED <<submoduleNames, outTc>>

\* exitCondExpr
condExprValue(pred, then, else) ==
    /\ HandlerCall([handler |-> "exitCondExpr", folded |-> TRUE, cond |-> pred,
                    then |-> then, else |-> else])
    /\ elabValues' = Stored("exitCondExpr", CondExprValue(pred, then.v, else.v), {then, else},
                            IF pred THEN then.printed ELSE else.printed,
                            IF pred THEN then.dropped \cup UsesIn(else.v)
                            ELSE UsesIn(then.v) \cup else.dropped)
    /\ UNCHANGED <<submoduleNames, outTc>>

\* exitCaseExprItem
caseExprItemValue(body) ==
    /\ HandlerCall([handler |-> "exitCaseExprItem", body |-> body])
    /\ elabValues' = Stored("exitCaseExprItem", TcV(CaseExprItemCode(body.v)), {body}, body.printed, body.dropped)
    /\ UNCHANGED <<submoduleNames, outTc>>

\* exitVarAssign of base.f = e; in a function: the assignment is rewritten
\* when base is in submoduleNames and is left without value otherwise
varAssignValue(base, expr) ==
    /\ HandlerCall([handler |-> "exitVarAssign", base |-> base, expr |-> expr,
                    names |-> submoduleNames, rewritten |-> base \in submoduleNames])
    /\ elabValues' =
          IF base \in submoduleNames
          THEN Stored("exitVarAssign", TcV(MemberAssignCode(base, expr.v)), {expr}, expr.printed, expr.dropped)
          ELSE elabValues
    /\ UNCHANGED <<submoduleNames, outTc>>

\* enterModuleDef
moduleDefValue(stmts, args) ==
    /\ HandlerCall([handler |-> "enterModuleDef", stmts |-> stmts, args |-> args])
    /\ submoduleNames' = NamesAt(stmts, args, 1, {}).last
    /\ elabValues' = Stored("enterModuleDef", TcV(ModuleDefCode(stmts, args)), {}, ModuleUses(stmts), {})
    /\ UNCHANGED outTc

\* exitFunctionDef
functionDefValue(isTopLevel, body, hasArgs) ==
    /\ HandlerCall([handler |-> "exitFunctionDef", isTopLevel |-> isTopLevel, body |-> body])
    /\ elabValues' =
          IF isTopLevel
          THEN Stored("exitFunctionDef", TcV(FunctionDefCode(body.v, hasArgs)), {body}, body.printed, body.dropped)
          ELSE elabValues
    /\ UNCHANGED <<submoduleNames, outTc>>

\* exitBsvImportDecl
bsvImportDeclValue(ids) ==
    /\ HandlerCall([handler |-> "exitBsvImportDecl", ids |-> ids])
    /\ elabValues' = Stored("exitBsvImportDecl", TcV(BsvImportDeclCode(ids)), {}, {}, {})
    /\ UNCHANGED <<submoduleNames, outTc>>

\* translateFiles: tc.emit(tree) reaches a node that has a value and no
\* parent with a value
emitTree(k) ==
    /\ elabValues[k].role = "root"
    /\ ~outTc.failed
    /\ valLast' = [handler |-> "emit", k |-> k]
    /\ UNCHANGED valOps
    /\ outTc' = EmitNode(outTc, elabValues[k].value)
    /\ elabValues' = [elabValues EXCEPT ![k].role = "emitted"]
    /\ UNCHANGED submoduleNames

(***************************************************************************)
(* Specifications                                                          *)
(***************************************************************************)

\* Every component in its state after construction
Init ==
    /\ ErrInit
    /\ IcInit
    /\ PuInitDefault
    /\ ArInit
    /\ TcInit
    /\ ImpInitDefault
    /\ ElabInitDefault
    /\ StInitDefault
    /\ CbInitDefault
    /\ MscInitDefault
    /\ ValInitDefault

\* The reporting calls of a run of msc: initReporting once, then reports, then
\* exitIfErrors
ErrOnly == UNCHANGED <<icVars, puVars, arVars, tcVars, impVars, elabVars, stVars, cbVars, mscVars, valVars>>

NextErrors ==
    \/ \E b \in BOOLEAN : initReporting(b) /\ ErrOnly
    \/ \E m \in Msgs, c \in Ctxs : reportErr(m, c) /\ ErrOnly
    \/ \E m \in Msgs, c \in Ctxs : reportWarn(m, c) /\ ErrOnly
    \/ exitIfErrors /\ ErrOnly

SpecErrors == Init /\ [][NextErrors]_vars

\* The calls of the IntegerContext's public interface
IcOnly == UNCHANGED <<errVars, puVars, arVars, tcVars, impVars, elabVars, stVars, cbVars, mscVars, valVars>>

NextIC ==
    \/ enterImmutableLevel /\ IcOnly
    \/ enterMutableLevel /\ IcOnly
    \/ enterPoisoningLevel /\ IcOnly
    \/ exitLevel /\ IcOnly
    \/ \E n \in IcNames, b \in BOOLEAN : defineVar(n, b) /\ IcOnly
    \/ \E n \in IcNames, v \in IcValues : set(n, v) /\ IcOnly

SpecIC == Init /\ [][NextIC]_vars

\* Two parametric uses are built and then compared and printed
InitPU ==
    /\ ErrInit
    /\ IcInit
    /\ PuInit
    /\ ArInit
    /\ TcInit
    /\ ImpInitDefault
    /\ ElabInitDefault
    /\ StInitDefault
    /\ CbInitDefault
    /\ MscInitDefault
    /\ ValInitDefault

PuOnly == UNCHANGED <<errVars, icVars, arVars, tcVars, impVars, elabVars, stVars, cbVars, mscVars, valVars>>

NextPU ==
    \/ BuildElaborated /\ PuOnly
    \/ BuildTopLevel /\ PuOnly
    \/ CompareAndPrint /\ PuOnly

SpecPU == InitPU /\ [][NextPU]_vars

\* The Elaborator leaves the nodes of Integer expressions bottom-up
ArOnly == UNCHANGED <<errVars, icVars, puVars, tcVars, impVars, elabVars, stVars, cbVars, mscVars, valVars>>

NextArith ==
    \/ \E n \in LiteralValues : exitIntLiteral(n) /\ ArOnly
    \/ \E b \in BOOLEAN : exitBoolVarExpr(b) /\ ArOnly
    \/ \E op \in Unops : exitUnopExpr(op) /\ ArOnly
    \/ \E op \in Binops : exitBinopExpr(op) /\ ArOnly

SpecArith == Init /\ [][NextArith]_vars

\* The Elaborator and the emitter write TranslatedCode objects
TcOnly == UNCHANGED <<errVars, icVars, puVars, arVars, impVars, elabVars, stVars, cbVars, mscVars, valVars>>

NextTC ==
    \/ \E o \in TcObjects, sv \in {"", "a"} : emitText(o, sv) /\ TcOnly
    \/ \E o \in TcObjects, ctx \in {"stmt", "expr"} : emitStart(o, ctx) /\ TcOnly
    \/ \E o \in TcObjects, ctxInfo \in {"", "i"} : emitEnd(o, ctxInfo) /\ TcOnly
    \/ \E o \in TcObjects, ctx \in {"stmt", "opt"} : emit(o, ctx) /\ TcOnly
    \/ \E ctx \in ValuedNodes, value \in TcAnyValues : setValue(ctx, value) /\ TcOnly

SpecTC == Init /\ [][NextTC]_vars

\* One call of parseFileAndImports(fileName, path) on some source files.  The
\* call is one thread of control that runs until it returns or exits.
InitImports ==
    /\ ErrInit
    /\ IcInit
    /\ PuInitDefault
    /\ ArInit
    /\ TcInit
    /\ ImpInit
    /\ ElabInitDefault
    /\ StInitDefault
    /\ CbInitDefault
    /\ MscInitDefault
    /\ ValInitDefault

ImpOnly == UNCHANGED <<errVars, icVars, puVars, arVars, tcVars, elabVars, stVars, cbVars, mscVars, valVars>>

NextImports ==
    \/ ParseRoot /\ ImpOnly
    \/ ParseImport /\ ImpOnly
    \/ ParseReturn /\ ImpOnly
    \/ TopoSortEnter /\ ImpOnly
    \/ TopoSortLeave /\ ImpOnly

SpecImports == InitImports /\ [][NextImports]_vars /\ WF_vars(NextImports)

\* One call of translateFiles on a package.  The call is one thread of
\* control that runs until it returns or exits.
InitElab ==
    /\ ErrInit
    /\ IcInit
    /\ PuInitDefault
    /\ ArInit
    /\ TcInit
    /\ ImpInitDefault
    /\ ElabInit
    /\ StInitDefault
    /\ CbInitDefault
    /\ MscInitDefault
    /\ ValInitDefault

ElabOnly == UNCHANGED <<errVars, puVars, arVars, tcVars, impVars, stVars, cbVars, mscVars, valVars>>

NextElab ==
    \/ WalkPackage /\ ElabOnly
    \/ WalkUse /\ ElabOnly
    \/ EnterFor /\ ElabOnly
    \/ ForIteration /\ ElabOnly
    \/ EmitPackage /\ ElabOnly
    \/ StartRound /\ ElabOnly
    \/ SkipUse /\ ElabOnly
    \/ Instantiate /\ ElabOnly
    \/ EmitSpecialization /\ ElabOnly

SpecElab == InitElab /\ [][NextElab]_vars /\ WF_vars(NextElab)

\* The walk of the body of one definition
InitStmt ==
    /\ ErrInit
    /\ IcInit
    /\ PuInitDefault
    /\ ArInit
    /\ TcInit
    /\ ImpInitDefault
    /\ ElabInitDefault
    /\ StInit
    /\ CbInitDefault
    /\ MscInitDefault
    /\ ValInitDefault

StmtOnly == UNCHANGED <<errVars, puVars, arVars, tcVars, impVars, elabVars, cbVars, mscVars, valVars>>

NextStmt ==
    \/ enterDef /\ StmtOnly
    \/ exitVarBinding /\ StmtOnly
    \/ exitVarAssign /\ StmtOnly
    \/ exitIfStmt /\ StmtOnly
    \/ exitForStmt /\ StmtOnly
    \/ exitCaseStmt /\ StmtOnly
    \/ exitBeginEndBlock /\ StmtOnly
    \/ exitDef /\ StmtOnly

SpecStmt == InitStmt /\ [][NextStmt]_vars

\* One run of minispec-combine
InitCombine ==
    /\ ErrInit
    /\ IcInit
    /\ PuInitDefault
    /\ ArInit
    /\ TcInit
    /\ ImpInitDefault
    /\ ElabInitDefault
    /\ StInitDefault
    /\ CbInit
    /\ MscInitDefault
    /\ ValInitDefault

CombineOnly == UNCHANGED <<errVars, icVars, puVars, arVars, tcVars, impVars, elabVars, stVars, mscVars, valVars>>

NextCombine ==
    \/ needFiles /\ CombineOnly
    \/ newRenameTable /\ CombineOnly
    \/ skipLastFile /\ CombineOnly
    \/ advance /\ CombineOnly
    \/ walkPackageStmt /\ CombineOnly
    \/ emitFile /\ CombineOnly

SpecCombine == InitCombine /\ [][NextCombine]_vars

\* The report of the output of one bsc run
InitMsc ==
    /\ ErrInit
    /\ IcInit
    /\ PuInitDefault
    /\ ArInit
    /\ TcInit
    /\ ImpInitDefault
    /\ ElabInitDefault
    /\ StInitDefault
    /\ CbInitDefault
    /\ MscInit
    /\ ValInitDefault

MscOnly == UNCHANGED <<errVars, icVars, puVars, arVars, tcVars, impVars, elabVars, stVars, cbVars, valVars>>

NextMsc == reportBluespecOutput /\ MscOnly

SpecMsc == InitMsc /\ [][NextMsc]_vars

\* The handlers of the Elaborator that store a TranslatedCode, in any order
\* on nodes whose children have been walked, and the emits of translateFiles
InitValues == Init

ValuesOnly == UNCHANGED <<errVars, icVars, puVars, arVars, tcVars, impVars, elabVars, stVars, cbVars, mscVars>>

NextValues ==
    \/ (\E folded \in BOOLEAN, cond \in BOOLEAN, then \in Children, else \in {ElseLeaf, NoChild} :
           /\ ~folded => (~cond /\ then \in Leaves /\ else = NoChild)
           /\ ifStmtValue(folded, cond, then, else)) /\ ValuesOnly
    \/ (\E body \in Children, n \in 0..MaxIterations, end \in {"done", "error"} :
           /\ end = "error" => n = MaxIterations
           /\ forStmtValue(body, n, end)) /\ ValuesOnly
    \/ (\E pred \in BOOLEAN, then \in Children, else \in {ElseLeaf, Leaf(IntV(1))} :
           condExprValue(pred, then, else)) /\ ValuesOnly
    \/ (\E body \in Children : caseExprItemValue(body)) /\ ValuesOnly
    \/ (\E base \in BaseNames, expr \in Children : varAssignValue(base, expr)) /\ ValuesOnly
    \/ (\E m \in Modules : moduleDefValue(m.stmts, m.args)) /\ ValuesOnly
    \/ (\E isTopLevel \in BOOLEAN, body \in Children, hasArgs \in BOOLEAN :
           /\ ~isTopLevel => ~hasArgs
           /\ functionDefValue(isTopLevel, body, hasArgs)) /\ ValuesOnly
    \/ (\E ids \in BsvImports : bsvImportDeclValue(ids)) /\ ValuesOnly
    \/ (\E k \in DOMAIN elabValues : emitTree(k)) /\ ValuesOnly

SpecValues == InitValues /\ [][NextValues]_vars

(***************************************************************************)
(* Claims about the IntegerContext                                         *)
(***************************************************************************)

\* C3: after a poisoning scope is exited, every Integer binding of an ancestor
\* scope that a set issued inside the scope has reached is Poisoned or still has
\* its pre-entry state and value, and no ancestor binding holds a value written
\* inside the scope (a Valid ancestor binding is the one it was on entry).
C3_PoisonedOrPreEntry ==
    (lastExit.op = "exitLevel" /\ lastExit.poisoning) =>
        /\ \A t \in lastExit.targets :
              \/ lastExit.post[t.level].integers[t.name].state = "POISONED"
              \/ lastExit.post[t.level].integers[t.name] = lastExit.pre[t.level].integers[t.name]
        /\ \A j \in 1..Len(lastExit.post) :
              /\ DOMAIN lastExit.post[j].integers = DOMAIN lastExit.pre[j].integers
              /\ \A n \in DOMAIN lastExit.post[j].integers :
                    lastExit.post[j].integers[n].state = "VALID"
                        => lastExit.post[j].integers[n] = lastExit.pre[j].integers[n]

\* a poisoning scope has been exited after a set inside it reached an ancestor
\* binding that was Valid on entry and the set wrote a different value
C3_Witness ==
    /\ lastExit.op = "exitLevel"
    /\ lastExit.poisoning
    /\ lastSet.op = "set"
    /\ \E t \in lastExit.targets :
          /\ lastExit.pre[t.level].integers[t.name].state = "VALID"
          /\ lastExit.pre[t.level].integers[t.name].value # lastSet.value
          /\ lastSet.found = t.level

\* The scopes set examines for name: every scope from the current one outward,
\* up to (not including) the first ancestor that is not mutable and up to (and
\* including) the first scope that knows the name
Examined(lv, name, i) ==
    /\ \A j \in i..(Len(lv) - 1) : lv[j].childrenCanMutate
    /\ \A j \in (i + 1)..Len(lv) :
          name \notin DOMAIN lv[j].integers /\ name \notin lv[j].nonIntegers

BindingInReach(lv, name) ==
    \E i \in 1..Len(lv) : Examined(lv, name, i) /\ name \in DOMAIN lv[i].integers

\* C4: set(name, v) fails iff name has no Integer binding within reach (walking
\* outward and stopping at the first non-mutable ancestor or at a scope that
\* marks name as non-Integer finds none); otherwise it succeeds.
C4_SetFailsIffOutOfReach ==
    lastSet.op = "set" => (lastSet.ok <=> BindingInReach(lastSet.before, lastSet.name))

\* a set has failed on a name that get still resolves to an Integer (the binding
\* lies in or beyond a non-mutable ancestor)
C4_Witness ==
    /\ lastSet.op = "set"
    /\ ~lastSet.ok
    /\ IcIsInteger(lastSet.before, lastSet.name)
    /\ Len(lastSet.before) >= 3

(***************************************************************************)
(* Claims about ParametricUse                                              *)
(***************************************************************************)

\* the escape flags of a and b agree at the head and in every nested parameter
RECURSIVE SameEscape(_, _)
SameEscape(a, b) ==
    /\ a.escape = b.escape
    /\ \A i \in 1..Len(a.params) :
          a.params[i].isInt \/ SameEscape(a.params[i].pu, b.params[i].pu)

\* C6 as stated: for any two ParametricUses with a == b, a.str() and b.str()
\* are the same string.
C6_AsStated ==
    (puOut.op = "compared" /\ puOut.eq) => puOut.strA = puOut.strB

\* C6 amended: for a == b whose escape flags agree (head and nested
\* parameters), a.str() and b.str() are the same string; and for any a == b
\* the forms printed with alreadyEscaped = true are the same string.
C6_EqualPrintSame ==
    (puOut.op = "compared" /\ puOut.eq) =>
        /\ puOut.rawA = puOut.rawB
        /\ SameEscape(puA, puB) => puOut.strA = puOut.strB

\* two equal uses with a nested type parameter, printed escaped
C6_Witness ==
    /\ puOut.op = "compared"
    /\ puOut.eq
    /\ SameEscape(puA, puB)
    /\ puA.escape
    /\ Len(puA.params) = 2
    /\ ~puA.params[2].isInt
    /\ puOut.strA = puOut.strB

(***************************************************************************)
(* Claims about diagnostic reporting                                       *)
(***************************************************************************)

\* C9 as stated: a reportMsg call whose text was already printed for the same
\* severity is not printed again but is still counted (the total grows by one).
C9_AsStated ==
    (lastReport.op = "reportMsg" /\ lastReport.msgSeen)
        => (~lastReport.printed /\ lastReport.totalAfter = lastReport.totalBefore + 1)

\* C9 amended: a reportMsg call whose text was already printed for the same
\* severity is neither printed again nor counted: the total for that severity
\* is unchanged, so the repeat does not add to the "omitted N errors" figure.
C9_RepeatNotCounted ==
    (lastReport.op = "reportMsg" /\ lastReport.msgSeen)
        => (~lastReport.printed /\ lastReport.totalAfter = lastReport.totalBefore)

C9_Witness ==
    /\ lastReport.op = "reportMsg"
    /\ lastReport.msgSeen
    /\ lastReport.isError
    /\ totalErrs = 2

ReportingState ==
    <<errMsgs, warnMsgs, errCtxs, warnCtxs, totalErrs, totalWarns, reportAllMsgs>>

\* C11: exitIfErrors ends the process (exit(-1), a non-zero status) if and only
\* if reportMsg was called for an error since start-up, whatever the number of
\* warnings; a call that returns leaves the reporting state and std::cerr as
\* they were.
C11_ExitIffErrorReported ==
    /\ [](lastReport.op = "exitIfErrors" =>
            /\ lastReport.exits <=> errReported
            /\ lastReport.exits <=> errPhase = "exited")
    /\ [][(lastReport'.op = "exitIfErrors" /\ ~lastReport'.exits) =>
            /\ ReportingState' = ReportingState
            /\ stderrLog' = stderrLog
            /\ errPhase' = errPhase]_vars

\* exitIfErrors returned although warnings were reported
C11_Witness ==
    /\ lastReport.op = "exitIfErrors"
    /\ ~lastReport.exits
    /\ totalWarns >= 2
    /\ errPhase = "reporting"

\* exitIfErrors ended the process on an error that was counted but not printed
C11_WitnessExit ==
    /\ lastReport.op = "exitIfErrors"
    /\ lastReport.exits
    /\ errPhase = "exited"
    /\ totalErrs > Cardinality(errMsgs)

(***************************************************************************)
(* Claims about Integer expression folding                                 *)
(***************************************************************************)

\* C7: every Integer expression built only from unsized literals and the
\* arithmetic operators folds, without a fault, to the Int that is its value
\* under two's-complement arithmetic of the word width.
C7_AsStated ==
    /\ ~arFault
    /\ \A k \in 1..Len(arStack) : Agrees(arStack[k])

(***************************************************************************)
(* Claims about TranslatedCode                                             *)
(***************************************************************************)

TcRanges(tc) == (DOMAIN tc.dstToSrc) \cup (DOMAIN tc.dstToInfo)

\* C5: every range (s, e) recorded in the maps of a TranslatedCode satisfies
\* 0 <= s < e <= len(code), after any sequence of emits, emitStarts, emitEnds
\* and splices of sub-emissions, and an emitEnd that finds no bytes produced
\* since its emitStart leaves the maps as they were.
C5_RangesWithinCode ==
    \A o \in TcObjects :
        /\ \A r \in TcRanges(tcs[o]) : 0 <= r[1] /\ r[1] < r[2] /\ r[2] <= Len(tcs[o].code)
        /\ \A x \in tcs[o].ends : x.startPos = x.endPos => x.same

\* main has spliced the ranges of sub at an offset, has recorded a range with
\* an information string, and has run an emitEnd that found no bytes
C5_Witness ==
    /\ tcLast = [op |-> "emit", object |-> "main"]
    /\ tcValues["expr"] = TranslatedV
    /\ ~tcs["main"].failed
    /\ \E q \in DOMAIN tcs["sub"].dstToSrc, k \in 1..3 :
            <<q[1] + k, q[2] + k>> \in DOMAIN tcs["main"].dstToSrc
    /\ \E x \in tcs["main"].ends : x.startPos = x.endPos /\ x.startPos > 0
    /\ DOMAIN tcs["sub"].dstToInfo # {}

(***************************************************************************)
(* Claims about parseFileAndImports                                        *)
(***************************************************************************)

\* The files the import items of f name
ImportsOf(f) == {impSource[f][k] : k \in 1..Len(impSource[f])}

RECURSIVE ReachFrom(_, _)
ReachFrom(seen, n) ==
    IF n = 0 THEN seen
    ELSE ReachFrom(seen \cup UNION {ImportsOf(f) : f \in seen}, n - 1)

\* The files reachable from f through one import or more, and the files
\* reachable from the root
Importees(f) == ReachFrom(ImportsOf(f), Cardinality(Files))

Reachable == {RootFile} \cup Importees(RootFile)

ImportCycle == \E f \in Reachable : f \in Importees(f)

PositionIn(sq, f) == CHOOSE k \in 1..Len(sq) : sq[k] = f

TopologicalOrder(sq) ==
    /\ {sq[k] : k \in 1..Len(sq)} = Reachable
    /\ Len(sq) = Cardinality(Reachable)
    /\ sq[Len(sq)] = RootFile
    /\ \A f \in Reachable : \A g \in ImportsOf(f) : PositionIn(sq, g) < PositionIn(sq, f)

ImportsSettled ==
    /\ impPhase = "returned" => ~ImportCycle /\ TopologicalOrder(sortedTrees)
    /\ impPhase = "error" => ImportCycle /\ Len(impError) >= 2 /\ impError[1] = impError[Len(impError)]

\* C8: parseFileAndImports terminates; when it returns, the trees are those of
\* the files reachable from the root, each once, every imported file before
\* its importers and the root last, and the import graph has no cycle; when
\* it raises 'import cycle detected', the reachable import graph has a cycle.
C8_SortedOrCycle == [](ImportsSettled) /\ <>(impPhase \in {"returned", "error"})

\* A return for three files of which one is imported by the two others
C8_Witness ==
    /\ impPhase = "returned"
    /\ Len(sortedTrees) = 3
    /\ \E f \in Files : \A g \in Files \ {f} : f \in ImportsOf(g)

\* A cycle that does not go through the root is reported
C8_WitnessCycle ==
    /\ impPhase = "error"
    /\ RootFile \notin Importees(RootFile)

(***************************************************************************)
(* Claims about the work loop and the elaboration steps                    *)
(***************************************************************************)

\* The work loop has terminated (translateFiles then returns, or exits when
\* errors were reported)
LoopEnded == elabStatus \in {"returned", "exited"}

Printed == {printedUses[k] : k \in 1..Len(printedUses)}

\* The specializations emitted whose signature equals u, and the times u was
\* printed
Specializations(u) == Cardinality({k \in 1..Len(emittedSpecs) : PuEq(emittedSpecs[k], u)})

Prints(u) == Cardinality({k \in 1..Len(printedUses) : PuEq(printedUses[k], u)})

\* C1 as the spec states it: once the work loop has terminated, every use
\* printed whose name has a definition in the ParametricsMap has exactly one
\* specialization, and every other use printed has none.
C1_AsStated ==
    LoopEnded =>
        \A u \in Printed :
            IF u.name \in DOMAIN parametrics THEN Specializations(u) = 1
            ELSE Specializations(u) = 0

\* The formals are Integer and type formals with distinct names
PlainFormals(formals) ==
    /\ \A i \in 1..Len(formals) : formals[i].kind \in {"int", "type"}
    /\ \A i, j \in 1..Len(formals) : formals[i].name = formals[j].name => i = j

\* The params of u agree with the formals in number and kind
ParamsMatch(u, formals) ==
    /\ Len(u.params) = Len(formals)
    /\ \A i \in 1..Len(formals) :
          /\ formals[i].kind = "int" => u.params[i].isInt
          /\ formals[i].kind = "type" => ~u.params[i].isInt

\* C1: once the work loop has terminated, every use printed whose name has a
\* definition in the ParametricsMap with Integer and type formals of distinct
\* names, and whose params agree with them in number and kind, has exactly
\* one specialization, however often it was printed; a use whose params do
\* not agree has none and an error was reported; a use whose name has no
\* local definition has none.
C1_ExactlyOnceIfMatching ==
    LoopEnded =>
        \A u \in Printed :
            IF u.name \notin DOMAIN parametrics THEN Specializations(u) = 0
            ELSE LET formals == parametrics[u.name].formals
                 IN  /\ PlainFormals(formals) /\ ParamsMatch(u, formals)
                            => Specializations(u) = 1
                     /\ ~ParamsMatch(u, formals)
                            => Specializations(u) = 0 /\ elabErrs # {}

\* A use printed by the top-level code, by a specialization emitted in a
\* later round and as that of its own signature, instantiated once
C1_Witness ==
    /\ elabStatus = "returned"
    /\ \E u \in Printed :
          /\ Prints(u) >= 3
          /\ Specializations(u) = 1
          /\ \E k \in 1..Len(elabTop) : elabTop[k].k = "use" /\ elabTop[k].use.name = u.name
    /\ Len(emittedSpecs) = 2

ElabEnded == elabStatus \in {"returned", "exited", "fatal"}

\* The fatal diagnostic is raised by the step that exceeds a limit, and by no
\* other; when the loop ends no use is left and no for loop is open
ElabWithinLimits ==
    /\ elabStatus = "fatal" =>
          \/ elabFatal = "steps" /\ numElabSteps = maxElabSteps + 1
          \/ elabFatal = "depth" /\ numElabSteps <= maxElabSteps /\ elabDepth = maxDepth + 1
    /\ elabStatus # "fatal" =>
          /\ elabFatal = ""
          /\ numElabSteps <= maxElabSteps
          /\ elabStatus = "inst" => elabDepth <= maxDepth
    /\ LoopEnded => tcUses = <<>> /\ paramUses = <<>> /\ NoFor

\* C2: translateFiles terminates: it reaches a round of the work loop that
\* dequeues no use, every for loop unrolled having reached a False condition,
\* or it dies of the fatal diagnostic, raised as soon as more than
\* maxElabSteps steps are registered or a parametric is instantiated at a
\* depth above maxDepth.
C2_ElaborationTerminates == [](ElabWithinLimits) /\ <>(ElabEnded)

\* A chain of instantiations that never ends is cut at the depth limit
C2_Witness ==
    /\ elabStatus = "fatal"
    /\ elabFatal = "depth"
    /\ Len(emittedSpecs) = maxDepth

\* A for loop that never ends is cut at the step limit
C2_WitnessSteps ==
    /\ elabStatus = "fatal"
    /\ elabFatal = "steps"
    /\ ~NoFor
    /\ elabFor.step = 0

(***************************************************************************)
(* Claims about the elaboration of statements                              *)
(***************************************************************************)

Pieces(text) == {text[i] : i \in DOMAIN text}

Occurrences(text, piece) == Cardinality({i \in DOMAIN text : text[i] = piece})

IfEntries == {n \in DOMAIN stLog : stLog[n].k = "if" /\ stLog[n].cond.t = "bool"}

\* C12: an if statement whose condition elaborated to a Bool is printed as the
\* comment naming the branch taken followed by begin, the taken branch and
\* end, each piece of the taken branch as often as the branch has it; no piece
\* that only the other branch has is printed; a False condition without else
\* prints the comment of a non-taken if and no statement.
C12_OnlyTakenBranch ==
    \A n \in IfEntries :
        LET g == stLog[n]
            taken == IF g.cond.b THEN g.thenText ELSE g.elseText
            other == IF g.cond.b THEN g.elseText ELSE g.thenText
        IN  /\ g.cond.b => g.text[1] = "/* taken if */ "
            /\ (~g.cond.b /\ g.hasElse) => g.text[1] = "/* taken else */ "
            /\ (g.cond.b \/ g.hasElse) =>
                    /\ Len(g.text) = Len(taken) + 3
                    /\ g.text[2] = "begin "
                    /\ SubSeq(g.text, 3, Len(g.text) - 1) = taken
                    /\ g.text[Len(g.text)] = " end"
            /\ (~g.cond.b /\ ~g.hasElse) => g.text = <<"/* non-taken if */ ">>
            /\ \A p \in Pieces(other) \ Pieces(taken) : Occurrences(g.text, p) = 0
            /\ \A p \in Pieces(taken) : Occurrences(g.text, p) = Occurrences(taken, p)

\* An if with a False condition and an else, inside an unrolled for loop, has
\* printed its else branch only
C12_Witness ==
    /\ stPhase = "done"
    /\ \E n \in IfEntries :
          /\ ~stLog[n].cond.b
          /\ stLog[n].hasElse
          /\ stLog[n].thenText # <<>>
          /\ stLog[n].elseText = <<"b = ", "1", ";">>
          /\ stLog[n].text = <<"/* taken else */ ", "begin ", "b = ", "1", ";", " end">>

ForEntries == {n \in DOMAIN stLog : stLog[n].k = "for"}

\* C13: a for statement whose init, condition and update all elaborated (the
\* loop ended on a False condition) is printed as one begin ... end block per
\* condition that was True, in order and with nothing after them; block n is
\* annotated with the value the induction variable had when the n-th
\* condition was evaluated; one step was registered per block.  When
\* registerElabStep ends the process, the step of the last True condition
\* has no block.
C13_OneBlockPerIteration ==
    \A n \in ForEntries :
        LET g == stLog[n]
            trues == {i \in DOMAIN g.conds : g.conds[i] = BoolV(TRUE)}
        IN  /\ g.end = "done" =>
                  /\ Len(g.conds) = Len(g.blocks) + 1
                  /\ \A i \in 1..Len(g.blocks) : g.conds[i] = BoolV(TRUE)
                  /\ g.conds[Len(g.conds)] = BoolV(FALSE)
                  /\ g.registered = Len(g.blocks)
                  /\ g.text = <<"/* for loop */">>
                                \o Flatten([i \in 1..Len(g.blocks) |-> g.blocks[i].text], 1)
                  /\ \A i \in 1..Len(g.blocks) :
                        /\ g.blocks[i].text[1] = "begin "
                        /\ SubSeq(g.blocks[i].text, Len(g.blocks[i].text) - 1,
                                  Len(g.blocks[i].text)) = <<" end", "\n">>
                        /\ g.starts[i].state = "VALID"
                        /\ g.blocks[i].info =
                              "iteration with j = " \o IntText(g.starts[i].value)
            /\ g.end = "fatal" => g.registered = Len(g.blocks) + 1

\* A loop whose body assigns the induction variable has printed two blocks,
\* for the iterations that began with j = 0 and j = 2
C13_Witness ==
    /\ stPhase = "done"
    /\ \E n \in ForEntries :
          /\ stLog[n].end = "done"
          /\ Len(stLog[n].blocks) = 2
          /\ stLog[n].blocks[2].info = "iteration with j = 2"
          /\ stErrs = {}

\* The body is Integer i = 1; an if that assigns i; a use of i
AssignedInIf ==
    /\ Len(stBody) = 3
    /\ stBody[2].k = "if"
    /\ stBody[2].then = AssignS("i", LitE(2))
    /\ stBody[3] = AssignS("y", VarE("i"))
    /\ stPhase = "done"

\* C14 as stated: in every kind of definition, the use of an Integer that was
\* initialized, then assigned inside an if, yields the poisoned error.
C14_AsStated ==
    AssignedInIf => stLog[Len(stLog)].value = ErrV(PoisonedText)

\* In a function, method, rule or begin/end block it does
C14_PoisonedInMutableScopes ==
    (AssignedInIf /\ stScope # "module") => stLog[Len(stLog)].value = ErrV(PoisonedText)

\* In a module body the set fails, the assignment is dropped and the use sees
\* the initial value
C14_ModuleKeepsValue ==
    (AssignedInIf /\ stScope = "module") =>
        /\ stLog[Len(stLog)].value = IntV(1)
        /\ stLog[1] = [k |-> "set", var |-> "i", ok |-> FALSE]
        /\ stErrs = {}

CaseEntries == {n \in DOMAIN stLog : stLog[n].k = "case" /\ stLog[n].taken # 0}

DefiningFiles(name) ==
    {i \in DOMAIN cbArgv :
        \E s \in DOMAIN cbArgv[i].tree :
           \E d \in DOMAIN DefinedNames(cbArgv[i].tree[s]) :
              DefinedNames(cbArgv[i].tree[s])[d] = name}

FileOccurrences(i) == BodyOccurrences(cbArgv[i].tree, <<i>>, 1, TRUE, {})

\* The printed identifiers, each with its occurrence in the parse tree.
PrintedIdentifiers ==
    UNION {LET occs == FileOccurrences(f)
           IN  {[out |-> cbOut[n], occ |-> occs[j]] :
                   <<n, j>> \in {q \in (DOMAIN cbOut) \X (DOMAIN occs) :
                                    /\ cbOut[q[1]].file = f
                                    /\ cbOut[q[1]].id = occs[q[2]].id}} :
           f \in {cbOut[n].file : n \in DOMAIN cbOut}}

Renamed(name, i) == <<name, "___", "In", ToString(i)>>

Max(S) == CHOOSE x \in S : \A y \in S : y <= x
Min(S) == CHOOSE x \in S : \A y \in S : x <= y

C17_AsStated ==
    \A p \in PrintedIdentifiers :
       LET D == DefiningFiles(p.out.name)
       IN  (p.occ.renameable /\ ~p.occ.local /\ D # {} /\ p.out.file < Min(D)) =>
              p.out.text = <<p.out.name>>

\* C17, observed: such a reference is printed with the suffixed name of the
\* first definition of g whenever g is defined in more than one file.
C17_UsesFirstDefinition ==
    \A p \in PrintedIdentifiers :
       LET D == DefiningFiles(p.out.name)
       IN  (p.occ.renameable /\ ~p.occ.local /\ D # {} /\ p.out.file < Min(D)) =>
              p.out.text = IF Cardinality(D) > 1
                           THEN Renamed(p.out.name, Min(D))
                           ELSE <<p.out.name>>

\* A file that uses g, then two files that define g.
C17_Witness ==
    /\ cbPhase = "done"
    /\ DefiningFiles("g") = {2, 3}
    /\ \E p \in PrintedIdentifiers :
          /\ p.out.file = 1 /\ p.out.name = "g"
          /\ p.occ.renameable /\ ~p.occ.local
          /\ p.out.text = <<"g", "___", "In", "2">>

Mentions(msg, piece) == \E i \in DOMAIN msg : msg[i] = piece

\* The events reported so far that have no header.
HeaderlessReported ==
    {k \in DOMAIN mscReports :
        ~\E i \in 1..Len(mscEvents[k].msg) - 1 :
            /\ mscEvents[k].msg[i] \in Locs
            /\ mscEvents[k].msg[i + 1] = HdrCode}

\* C19: an event without a header is rewritten to "cannot find top-level
\* module/function 'TopLevel'" if and only if its text mentions
\* 'Command line:' together with 'Unbound variable ^mk'; every other event
\* without a header is reported as an unknown message, its text unchanged
\* but for the embedded locations.
C19_AsStated ==
    \A k \in HeaderlessReported :
       LET ev == mscEvents[k]
           both == Mentions(ev.msg, CommandLine) /\ Mentions(ev.msg, UnboundMk)
       IN  /\ (mscReports[k].text = NotFoundMsg(mscTopLevel)) <=> both
           /\ ~both => mscReports[k].text = UnknownMsg(ev.isError, ev.msg, mscMapped)

\* C19, observed: an event without a header is reported as an unknown
\* message only when its text starts with 'Unbound variable ^mk'; every
\* other one is rewritten to the top-level message.
C19_RewrittenUnlessUnboundFirst ==
    \A k \in HeaderlessReported :
       LET ev == mscEvents[k]
       IN  mscReports[k].text = IF ev.msg[1] = UnboundMk
                                THEN UnknownMsg(ev.isError, ev.msg, mscMapped)
                                ELSE NotFoundMsg(mscTopLevel)

\* A warning without a header that mentions neither text is reported as a
\* missing top-level module.
C19_Witness ==
    \E k \in HeaderlessReported :
       /\ ~mscEvents[k].isError
       /\ ~Mentions(mscEvents[k].msg, CommandLine)
       /\ ~Mentions(mscEvents[k].msg, UnboundMk)
       /\ mscReports[k].text = NotFoundMsg("Foo")

(***************************************************************************)
(* Claims about operands of mixed types                                    *)
(***************************************************************************)

\* The last handler was exitBinopExpr on one Integer and one Bool operand.
MixedBinop ==
    /\ arLast.node = "BinopExpr"
    /\ {arLast.operands[1].t, arLast.operands[2].t} = {"int", "bool"}

\* C20: a binary operator on an Integer and a Bool operand, in either
\* order, deposits an error whose message names the two operand types,
\* never a missing value or a concrete value.
C20_AsStated ==
    MixedBinop =>
       arStack[Len(arStack)].val \in
          {ErrV("operands have values of incompatible types (Integer and Bool)"),
           ErrV("operands have values of incompatible types (Bool and Integer)")}

\* C20, observed: with the Bool operand on the left no value is deposited.
C20_BoolIntegerHasNoValue ==
    (MixedBinop /\ arLast.operands[1].t = "bool") =>
       arStack[Len(arStack)].val = NullV

\* C20, observed: with the Integer operand on the left the error names
\* Integer and Bool.
C20_IntegerBoolIsError ==
    (MixedBinop /\ arLast.operands[1].t = "int") =>
       arStack[Len(arStack)].val =
          ErrV("operands have values of incompatible types (Integer and Bool)")

\* (1 < 2) + 3
C20_Witness ==
    /\ MixedBinop
    /\ arLast.op = "+"
    /\ arLast.operands = <<BoolV(TRUE), IntV(3)>>
    /\ arStack[Len(arStack)].val = NullV

(***************************************************************************)
(* Claims about writes through nested scopes                               *)
(***************************************************************************)

\* The poisoning scopes the last set walked through before it reached the
\* binding.
CrossedPoisoning ==
    IF lastSet.op = "set" /\ lastSet.ok
    THEN {i \in lastSet.found + 1..Len(lastSet.before) :
             lastSet.before[i].poisonsAncestors}
    ELSE {}

SetJustDone ==
    /\ lastSet.op = "set"
    /\ lastSet.ok
    /\ Len(levels) = Len(lastSet.before)
    /\ levels = IcSet(lastSet.before, lastSet.name, lastSet.value).levels

SetJustIssued ==
    /\ lastSet.op = "set"
    /\ Len(levels) = Len(lastSet.before)
    /\ levels = IcSet(lastSet.before, lastSet.name, lastSet.value).levels

\* The scope of the binding findInteger resolves the name of the last set to
DefiningScope == FindInteger(lastSet.before, lastSet.name)

\* The issuing scope and every scope between it and the defining scope are
\* mutable and not poisoning
OnlyMutableBetween ==
    /\ DefiningScope # 0
    /\ \A j \in (DefiningScope + 1)..Len(lastSet.before) :
          /\ lastSet.before[j].childrenCanMutate
          /\ ~lastSet.before[j].poisonsAncestors

UpdatedInPlace ==
    /\ lastSet.ok
    /\ levels = [lastSet.before EXCEPT ![DefiningScope].integers[lastSet.name] =
                    [state |-> "VALID", value |-> lastSet.value]]

\* C25 as stated: a set separated from the defining scope only by mutable
\* non-poisoning scopes updates the defining binding in place to (Valid, v)
\* and changes nothing else.
C25_AsStated == (SetJustIssued /\ OnlyMutableBetween) => UpdatedInPlace

\* C25: as above, when the defining scope is the issuing scope itself or a
\* scope whose children can mutate it (not a module or a package); from below
\* a scope whose children cannot mutate it, set fails and changes nothing.
C25_InPlaceUnlessImmutable ==
    (SetJustIssued /\ OnlyMutableBetween) =>
        IF DefiningScope = Len(lastSet.before)
              \/ lastSet.before[DefiningScope].childrenCanMutate
        THEN UpdatedInPlace
        ELSE ~lastSet.ok /\ levels = lastSet.before

\* a binding two mutable scopes up has been rewritten with another value
C25_Witness ==
    /\ SetJustIssued
    /\ OnlyMutableBetween
    /\ DefiningScope + 2 <= Len(lastSet.before)
    /\ lastSet.before[DefiningScope].childrenCanMutate
    /\ lastSet.before[DefiningScope].integers[lastSet.name].state = "VALID"
    /\ lastSet.before[DefiningScope].integers[lastSet.name].value # lastSet.value
    /\ IcGet(levels, lastSet.name).value = lastSet.value

(***************************************************************************)
(* Claims about Integer bindings and assignments in statements             *)
(***************************************************************************)

\* The uses of a name: the values the walk left on the varExprs of name
UsesOf(name) == {stLog[n].value : n \in {m \in DOMAIN stLog :
                                            stLog[m].k = "use" /\ stLog[m].e = VarE(name)}}

\* The Integer declarations of the body walked, those of its blocks included
RECURSIVE Decls(_, _)
Decls(ss, i) ==
    IF i > Len(ss) THEN {}
    ELSE (CASE ss[i].k = "decl" -> {ss[i]}
            [] ss[i].k = "block" -> Decls(ss[i].body, 1)
            [] OTHER -> {}) \cup Decls(ss, i + 1)

Uninitialized == ErrV("is uninitialized")

\* C23 as stated: an Integer declared without an initializer, or with an
\* initializer that does not elaborate to an integer, is left Invalid, so its
\* later use reports 'uninitialized'.
C23_AsStated ==
    \A d \in Decls(stBody, 1) :
        (d.var \in {"n", "m"}) => UsesOf(d.var) \subseteq {Uninitialized}

\* C23: a declared Integer is bound to the value of an initializer that
\* elaborates to an integer; without an initializer it is left Invalid and its
\* use reports 'uninitialized'; with an initializer that does not elaborate to
\* an integer an ElabError is reported, the name is bound Valid to the dummy
\* value of getIntegerValue and its use yields that value.
C23_DummyValueForNonInteger ==
    /\ UsesOf("n") \subseteq {Uninitialized}
    /\ UsesOf("m") \subseteq {IntV(DummyValue)}
    /\ UsesOf("m") # {} => "ElabError" \in stErrs
    /\ (stPhase = "walking" /\ Len(stTodo) = Len(stBody) - 1) =>
          IcGet(levels, FirstStmt.var) = [found |-> TRUE, state |-> "VALID",
                                          value |-> FirstStmt.e.v]

\* both the declaration without initializer and the one with a non-Integer
\* initializer have been walked and used
C23_Witness ==
    /\ stPhase = "done"
    /\ UsesOf("n") # {}
    /\ UsesOf("m") # {}

\* The body holds if (c) i = 2; else y = i; and the walk is over
SiblingIf == IfS(VarE("c"), AssignS("i", LitE(2)), AssignS("y", VarE("i")))

ElseReads ==
    {n \in DOMAIN stLog :
        /\ stLog[n].k = "use" /\ stLog[n].e = VarE("i")
        /\ n > 1 /\ stLog[n - 1] = [k |-> "set", var |-> "i", ok |-> TRUE]
        /\ n < Len(stLog) /\ stLog[n + 1].k = "if" /\ stLog[n + 1].hasElse}

\* C28: the read of i in the else branch of an if whose then branch assigns
\* i := 2 never yields the value 2 that the then branch wrote.
C28_NoSiblingValue == \A n \in ElseReads : stLog[n].value # IntV(2)

\* The sets the walk issued that IntegerContext::set rejected
RejectedSets == {n \in DOMAIN stLog : stLog[n].k = "set" /\ ~stLog[n].ok}

\* C29: an assignment to an Integer is given the value Skip only if set
\* succeeded: when set rejected one, a diagnostic was reported.
C29_NoSilentDrop == (stPhase = "done" /\ RejectedSets # {}) => stErrs # {}

(***************************************************************************)
(* Claims about the work loop and the IntegerContext                       *)
(***************************************************************************)

\* The work loop is between two uses of the round
BetweenUses == elabStatus = "loop"

\* C27: processing one dequeued parametric use leaves the depth of the
\* IntegerContext stack unchanged: whenever the work loop is between two uses
\* the stack holds the outermost level only, as it did when the loop began.
C27_DepthUnchanged == BetweenUses => Len(levels) = Len(IcNew)

\* Uses that were skipped or instantiated do leave the depth unchanged
C27_DepthUnchangedUnlessRejected ==
    (BetweenUses /\ elabErrs = {}) => Len(levels) = Len(IcNew)

\* The definition has an Integer or a type formal
HasFormal(def) == \E i \in 1..Len(def.formals) : def.formals[i].kind \in {"int", "type"}

\* The Integer variables of the package
PackageVars == DOMAIN levels[1].integers

\* C22: once exitPackageDef has visited the packageStmts, every definition
\* with an Integer or type formal is in the ParametricsMap and none has been
\* walked (exitFunctionId has recorded no signature), whatever Integer
\* variables the package defines.
C22_EveryParametricStored ==
    elabStatus = "top" =>
        /\ \A m \in DOMAIN LocalDefs : HasFormal(LocalDefs[m]) => m \in DOMAIN parametrics
        /\ parametricsEmitted = {}

\* The Integer formals of the definition all have the name of a package Integer
Captured(def) ==
    \A i \in 1..Len(def.formals) :
        def.formals[i].kind = "int" /\ def.formals[i].name \in PackageVars

\* It is so for the definitions with a formal that no package Integer names;
\* the others are walked in the first pass as if they had no formals
C22_StoredUnlessCaptured ==
    elabStatus = "top" =>
        \A m \in DOMAIN LocalDefs :
            /\ (HasFormal(LocalDefs[m]) /\ ~Captured(LocalDefs[m])) => m \in DOMAIN parametrics
            /\ Captured(LocalDefs[m]) =>
                  /\ m \notin DOMAIN parametrics
                  /\ HasUse(parametricsEmitted, [name |-> m, params |-> <<IntParam(2)>>,
                                                  escape |-> TRUE])

(***************************************************************************)
(* Claims about the TranslatedCode values stored on nodes                  *)
(***************************************************************************)

\* The values stored that are a TranslatedCodePtr
StoredCode == {k \in DOMAIN elabValues : elabValues[k].value.t = "translated"}

\* C26: every TranslatedCode stored as the value of a node by exitIfStmt,
\* exitForStmt, exitCondExpr, exitCaseExprItem, exitVarAssign, enterModuleDef,
\* exitFunctionDef or exitBsvImportDecl has an empty emitStack, no emitEnd
\* has been called on an empty stack while it was built, and the assertion of
\* emit has not failed when it, or the TranslatedCode of translateFiles,
\* merged a stored value.
C26_StoredCodeIsClosed ==
    /\ \A k \in StoredCode : /\ elabValues[k].value.tc.emitStack = <<>>
                              /\ ~elabValues[k].value.tc.failed
    /\ outTc.emitStack = <<>>
    /\ ~outTc.failed

\* A for loop of two iterations whose body is the value of an if statement
\* has been stored and merged by translateFiles.
C26_Witness ==
    \E k \in StoredCode :
        /\ elabValues[k].handler = "exitForStmt"
        /\ elabValues[k].role = "emitted"
        /\ Cardinality(DOMAIN elabValues[k].value.tc.dstToInfo) = 2
        /\ \E j \in StoredCode : /\ elabValues[j].handler = "exitIfStmt"
                                  /\ elabValues[j].role = "child"
        /\ outTc.code = elabValues[k].value.tc.code

\* The parametric uses translateFiles puts on the work queue: those its
\* TranslatedCode has emitted
Queued == {outTc.parametricUsesEmitted[k].pu : k \in DOMAIN outTc.parametricUsesEmitted}

\* The values translateFiles has emitted
Emitted == {k \in DOMAIN elabValues : elabValues[k].role = "emitted"}

\* The branch of the last exitIfStmt or exitCondExpr that its condition selects
TakenChild == IF valLast.cond THEN valLast.then ELSE valLast.else

FoldedBranch == valLast.handler \in {"exitIfStmt", "exitCondExpr"} /\ valLast.folded

\* C30: the value exitIfStmt or exitCondExpr stores for a condition that
\* folded to a Bool holds the parametric uses of the taken branch only, and
\* every parametric use on the work queue lies outside the non-taken branches
\* of a value translateFiles has emitted: a use that occurs only in non-taken
\* branches is never queued.
C30_NonTakenNeverQueued ==
    /\ FoldedBranch => UsesIn(elabValues[Len(elabValues)].value) = UsesIn(TakenChild.v)
    /\ Queued \subseteq UNION {elabValues[k].printed : k \in Emitted}

\* An if statement with f#(1) in its taken branch and f#(2) in its non-taken
\* branch has been emitted: f#(1) is on the work queue and f#(2) is not.
C30_Witness ==
    \E k \in Emitted :
        /\ elabValues[k].handler = "exitIfStmt"
        /\ UseF2 \in elabValues[k].dropped
        /\ UseF1 \in Queued
        /\ UseF2 \notin Queued

\* C21: a member assignment base.f = e; that exitVarAssign handles outside of
\* the elaboration of a module (in a function that follows the modules
\* elaborated so far) is not rewritten to base.f___input(e);, whatever the
\* submodules and arguments of those modules are named.
C21_NotRewrittenAfterModule ==
    valLast.handler = "exitVarAssign" => ~valLast.rewritten

====
